---- MODULE Spec2Model ----
(***************************************************************************)
(* Model of the failover protocol of solana-validator-failover: the        *)
(* passive-side server (Server.handleFailoverStream) and the active-side   *)
(* client (Client.Start) exchanging one mutable Message over one stream.   *)
(***************************************************************************)
EXTENDS Integers, Sequences, FiniteSets, TLC

(* ---------------------------- bounds ---------------------------------- *)
\* slots returned by GetCurrentSlot are drawn from 0..MaxSlot
MaxSlot == 1
\* monitor.credit_samples.count is drawn from 0..MaxMonitorCount
MaxMonitorCount == 2
\* every hook list holds at most MaxHooks hooks
MaxHooks == 1
\* vote ranks returned by the credit ranking are drawn from 1..MaxRank
MaxRank == 1
\* a hook sequence run on its own holds at most MaxSequenceLen hooks
MaxSequenceLen == 3
\* an env map passed to Hook.Run holds at most MaxEnvKeys keys
MaxEnvKeys == 2
\* GetVoteAccounts returns at most MaxVoteAccounts current vote accounts
MaxVoteAccounts == 3
\* getAverageSlotTime is called by MaxCallers goroutines at the same time
MaxCallers == 2
\* the clock of the slot-time cache runs from 0 to MaxNow
MaxNow == 3
\* slots of a leader schedule, relative to the epoch, are drawn from
\* 0..MaxRelativeSlot, and so are the slot numbers of GetEpochInfo
MaxRelativeSlot == 2

(* ----------------------- program constants ---------------------------- *)
MessageTypeFailoverInitiateRequest == 1
GossipMaxRetries == 4
LeaderMaxRetries == 10
\* getAverageSlotTime: maxRetries, the fallback slot time in ms, and the
\* 30 s the cache is valid for, in units of the model's clock
SlotTimeMaxRetries == 3
FallbackSlotTime == 400
CacheWindow == 2

(* ------------------------- value domains ------------------------------ *)
Versions == {"1.2.0", "1.3.0"}
Hosts == {"A", "B"}
\* tower file contents the active host may hold (non-empty byte strings)
TowerContents == {<<1>>, <<1, 2>>, <<3>>}

\* public keys of the keypairs the hosts may be configured with
ActiveKeys == {"PubActive", "PubPassiveB"}

\* solana.PrivateKey.PublicKey: the public key derived from a private key
PublicKey(key) ==
  CASE key = "PrivActive" -> "PubActive"
    [] key = "PrivPassiveA" -> "PubPassiveA"
    [] key = "PrivPassiveB" -> "PubPassiveB"
    [] OTHER -> ""

\* the private key of the keypair whose public key is pubkey
PrivateKeyOf(pubkey) ==
  CASE pubkey = "PubActive" -> "PrivActive"
    [] pubkey = "PubPassiveA" -> "PrivPassiveA"
    [] pubkey = "PubPassiveB" -> "PrivPassiveB"
    [] OTHER -> ""

\* identities.Identity as NewIdentityFromFile builds it: the path of the key
\* file and the private key parsed from it; both fields are exported
Identity(keyFile, key) == [KeyFile |-> keyFile, Key |-> key]

\* Identity.PubKey / Identity.Pubkey: i.Key.PublicKey().String()
PubKey(i) == PublicKey(i.Key)

\* a nil *Identity and a nil *Identities
NilIdentity == Identity("", "")
NilIdentities == [Active |-> NilIdentity, Passive |-> NilIdentity]

ZeroNodeInfo ==
  [PublicIP |-> "", Identities |-> NilIdentities, TowerFile |-> "",
   TowerFileBytes |-> <<>>, TowerFileHash |-> <<>>,
   SetIdentityCommand |-> "", SolanaValidatorFailoverVersion |-> ""]

\* the Message held by a fresh Stream
ZeroMessage ==
  [CanProceed |-> FALSE, ErrorMessage |-> "",
   ActiveNodeInfo |-> ZeroNodeInfo, PassiveNodeInfo |-> ZeroNodeInfo,
   IsDryRunFailover |-> FALSE, IsSuccessfullyCompleted |-> FALSE,
   ActiveNodeSetIdentityStartTime |-> 0, ActiveNodeSetIdentityEndTime |-> 0,
   ActiveNodeSyncTowerFileStartTime |-> 0,
   ActiveNodeSyncTowerFileEndTime |-> 0,
   PassiveNodeSetIdentityStartTime |-> 0, PassiveNodeSetIdentityEndTime |-> 0,
   PassiveNodeSyncTowerFileEndTime |-> 0,
   FailoverStartSlot |-> 0, FailoverEndSlot |-> 0,
   CreditSamples |-> <<>>]

(* --------------------------- pure helpers ----------------------------- *)
RECURSIVE SumBytes(_)
SumBytes(b) == IF b = <<>> THEN 0 ELSE Head(b) + SumBytes(Tail(b))

\* xxh3.Hash abstracted to a digest over a small range: it is a function of
\* the bytes only and, like any 64-bit digest, it is not injective
\* (<<1, 2>> and <<3>> collide)
xxh3Hash(b) == SumBytes(b) % 4

\* NodeInfo.ComputeTowerFileHashFromBytes: "xxh3:%x" of the digest
ComputeTowerFileHashFromBytes(towerFileBytes) ==
  <<"xxh3", xxh3Hash(towerFileBytes)>>

\* gob omits zero-valued fields and the decoder leaves the destination's
\* field alone when the field is absent from the stream
GobField(dst, src, zero) == IF src = zero THEN dst ELSE src

GobDecodeNodeInfo(dst, src) ==
  [PublicIP |-> GobField(dst.PublicIP, src.PublicIP, ""),
   Identities |-> GobField(dst.Identities, src.Identities, NilIdentities),
   TowerFile |-> GobField(dst.TowerFile, src.TowerFile, ""),
   TowerFileBytes |-> GobField(dst.TowerFileBytes, src.TowerFileBytes, <<>>),
   TowerFileHash |-> GobField(dst.TowerFileHash, src.TowerFileHash, <<>>),
   SetIdentityCommand |->
     GobField(dst.SetIdentityCommand, src.SetIdentityCommand, ""),
   SolanaValidatorFailoverVersion |->
     GobField(dst.SolanaValidatorFailoverVersion,
              src.SolanaValidatorFailoverVersion, "")]

\* Stream.Decode: decoder.Decode(&s.message) into the message already held
GobDecode(dst, src) ==
  [CanProceed |-> GobField(dst.CanProceed, src.CanProceed, FALSE),
   ErrorMessage |-> GobField(dst.ErrorMessage, src.ErrorMessage, ""),
   ActiveNodeInfo |-> GobDecodeNodeInfo(dst.ActiveNodeInfo, src.ActiveNodeInfo),
   PassiveNodeInfo |->
     GobDecodeNodeInfo(dst.PassiveNodeInfo, src.PassiveNodeInfo),
   IsDryRunFailover |->
     GobField(dst.IsDryRunFailover, src.IsDryRunFailover, FALSE),
   IsSuccessfullyCompleted |->
     GobField(dst.IsSuccessfullyCompleted, src.IsSuccessfullyCompleted, FALSE),
   ActiveNodeSetIdentityStartTime |->
     GobField(dst.ActiveNodeSetIdentityStartTime,
              src.ActiveNodeSetIdentityStartTime, 0),
   ActiveNodeSetIdentityEndTime |->
     GobField(dst.ActiveNodeSetIdentityEndTime,
              src.ActiveNodeSetIdentityEndTime, 0),
   ActiveNodeSyncTowerFileStartTime |->
     GobField(dst.ActiveNodeSyncTowerFileStartTime,
              src.ActiveNodeSyncTowerFileStartTime, 0),
   ActiveNodeSyncTowerFileEndTime |->
     GobField(dst.ActiveNodeSyncTowerFileEndTime,
              src.ActiveNodeSyncTowerFileEndTime, 0),
   PassiveNodeSetIdentityStartTime |->
     GobField(dst.PassiveNodeSetIdentityStartTime,
              src.PassiveNodeSetIdentityStartTime, 0),
   PassiveNodeSetIdentityEndTime |->
     GobField(dst.PassiveNodeSetIdentityEndTime,
              src.PassiveNodeSetIdentityEndTime, 0),
   PassiveNodeSyncTowerFileEndTime |->
     GobField(dst.PassiveNodeSyncTowerFileEndTime,
              src.PassiveNodeSyncTowerFileEndTime, 0),
   FailoverStartSlot |->
     GobField(dst.FailoverStartSlot, src.FailoverStartSlot, 0),
   FailoverEndSlot |-> GobField(dst.FailoverEndSlot, src.FailoverEndSlot, 0),
   CreditSamples |-> GobField(dst.CreditSamples, src.CreditSamples, <<>>)]

\* variant: the error of a failed command is dropped
RunCommandErrorIgnored(DryRun, exitOk) ==
  IF DryRun THEN [err |-> FALSE, started |-> FALSE]
  ELSE [err |-> FALSE, started |-> TRUE]

\* variant: the DryRun parameter is not consulted
RunCommandIgnoresDryRun(DryRun, exitOk) ==
  [err |-> ~exitOk, started |-> TRUE]

\* utils.RunCommand: a dry run returns nil without starting a process; a
\* real run starts the process and returns its error
RunCommand(DryRun, exitOk) ==
  IF DryRun THEN [err |-> FALSE, started |-> FALSE]
  ELSE [err |-> ~exitOk, started |-> TRUE]

\* hook lists: sequences of hooks, a hook being its must_succeed flag
HookLists ==
  UNION {[1..n -> [MustSucceed : BOOLEAN]] : n \in 0..MaxHooks}

\* index of the first hook that fails with must_succeed set, 0 when none
RECURSIVE FirstFatalHook(_, _, _)
FirstFatalHook(hooks, ok, i) ==
  IF i > Len(hooks) THEN 0
  ELSE IF ~ok[i] /\ hooks[i].MustSucceed THEN i
  ELSE FirstFatalHook(hooks, ok, i + 1)

\* variant: the error of a failing must_succeed hook is not returned
RunPreHooksErrorDropped(hooks, ok) == [err |-> FALSE, ran |-> Len(hooks)]

\* FailoverHooks.RunPreWhenPassive / RunPreWhenActive: hooks run in order; a
\* failing must_succeed hook stops the sequence and its error is returned
RunPreHooks(hooks, ok) ==
  LET f == FirstFatalHook(hooks, ok, 1)
  IN [err |-> f # 0, ran |-> IF f # 0 THEN f ELSE Len(hooks)]

\* what the hook processes do: Hook.Run returns an error for some hook
\* that has must_succeed set
MustSucceedHookFailed(hooks, ok) ==
  \E i \in 1..Len(hooks) : ~ok[i] /\ hooks[i].MustSucceed

\* FailoverHooks.RunPostWhenActive / RunPostWhenPassive: every hook runs,
\* failures are logged only
RunPostHooks(hooks, ok) == [err |-> FALSE, ran |-> Len(hooks)]

(* ------------------------------ state --------------------------------- *)
VARIABLES
  cfg,          \* flags and versions each process was started with
  cpc,          \* position of Client.Start
  spc,          \* position of Server.handleStream / handleFailoverStream
  cmsg,         \* Client.failoverStream.message
  smsg,         \* Server.failoverStream.message
  msgType,      \* message-type byte written on the stream (0: none yet)
  wire,         \* every message encoded on the stream, in encode order
  cread,        \* number of server messages the client has decoded
  sread,        \* number of client messages the server has decoded
  cexit,        \* client process: "running", "exit0" or "exit1"
  sexit,        \* server process: "running", "exit0" or "exit1"
  identity,     \* identity the validator on each host is running with
  towerB,       \* tower file on the passive host
  listener,     \* Server.listener: "open" or "closed"
  ctxCancelled, \* Server.cancel has been called
  remainingRetries, \* waitMinTimeToLeaderSlot: remainingRetries
  gossipCheck,  \* locals of confirmGossipNodesPostFailover
  chist,        \* log of the steps Client.Start has taken, in order
  shist,        \* log of the steps the server has taken, in order
  coord,        \* Validator.Failover on one host: its Validator fields, the
                \* files and gossip it sees, and how far it has got
  hookCalls,    \* per side, the env map of every hook sequence it has run
  hookRun,      \* one run of a hook sequence of FailoverHooks: the hooks,
                \* the env map, the loop position and what has run so far
  ranking,      \* one call of GetCreditRankedVoteAccountFromPubkey: the vote
                \* accounts the RPC returns, the pubkey asked for, the result
  handlers,     \* one Server with two accepted streams: its failoverStream
                \* and activeConn fields, the Stream objects, the handler
                \* goroutines
  slotCache,    \* the slot-time cache of the solana Client, its RWMutex and
                \* the goroutines calling getAverageSlotTime
  hookProc,     \* one Hook.Run: the child process, its two pipes, the two
                \* streamOutput goroutines, the WaitGroup and the log
  leaderSlot,   \* one call of GetTimeToNextLeaderSlotForPubkey
  gossipLoop    \* one call of confirmGossipNodesPostFailover: its variables
                \* and what each attempt saw and did

vars == <<cfg, cpc, spc, cmsg, smsg, msgType, wire, cread, sread, cexit,
          sexit, identity, towerB, listener, ctxCancelled, remainingRetries,
          gossipCheck, chist, shist, coord, hookCalls, hookRun, ranking,
          handlers, slotCache, hookProc, leaderSlot, gossipLoop>>

\* the variables of the stream handlers
streamVars == <<cfg, cpc, spc, cmsg, smsg, msgType, wire, cread, sread, cexit,
                sexit, identity, towerB, listener, ctxCancelled,
                remainingRetries, gossipCheck, chist, shist, hookCalls>>

\* the variables of the library functions that are run on their own
taskVars == <<handlers, slotCache, hookProc, leaderSlot, gossipLoop>>
libVars == <<hookRun, ranking, taskVars>>

IPOf(h) == IF h = "A" THEN "10.0.0.1" ELSE "10.0.0.2"

\* Identities loaded on host h: each host has its own passive keypair; host
\* B holds the active keypair, and so does host A unless its configuration
\* names as active the keypair that host B holds as passive
IdentitiesOf(h) ==
  IF h = "A"
  THEN [Active |-> Identity("/keys/active.json",
                            PrivateKeyOf(cfg.clientActiveKey)),
        Passive |-> Identity("/keys/passive.json", "PrivPassiveA")]
  ELSE [Active |-> Identity("/keys/active.json", "PrivActive"),
        Passive |-> Identity("/keys/passive.json", "PrivPassiveB")]

\* public key advertised by the validator on host h running identity role
PubOf(h, role) == IF role = "active" THEN PubKey(IdentitiesOf(h).Active)
                  ELSE PubKey(IdentitiesOf(h).Passive)

\* ClientConfig.ActiveNodeInfo built by Validator.makePassive
ActiveNodeInfoOf(c) ==
  [ZeroNodeInfo EXCEPT !.PublicIP = IPOf("A"),
                       !.Identities = IdentitiesOf("A"),
                       !.TowerFile = "/tower/A",
                       !.SetIdentityCommand = "set-identity-passive",
                       !.SolanaValidatorFailoverVersion = c.clientVersion]

\* ServerConfig.PassiveNodeInfo built by Validator.makeActive
PassiveNodeInfoOf(c) ==
  [ZeroNodeInfo EXCEPT !.PublicIP = IPOf("B"),
                       !.Identities = IdentitiesOf("B"),
                       !.TowerFile = "/tower/B",
                       !.SetIdentityCommand = "set-identity-active",
                       !.SolanaValidatorFailoverVersion = c.serverVersion]

\* variant: the negation of NotADrill is lost
ServerIsDryRunInverted(c) == c.serverNotADrill

\* ServerConfig.IsDryRunFailover: !params.NotADrill
ServerIsDryRun(c) == ~c.serverNotADrill

\* variant: the client takes the flag from its own command line
ClientIsDryRunFromOwnFlag(c, m) == ~c.clientNotADrill

\* the value Client.Start passes as RunCommandParams.DryRun
ClientIsDryRun(c, m) == m.IsDryRunFailover

(* ------------------------ hook environment maps ----------------------- *)
\* fmt.Sprintf("%t", b)
FormatBool(b) == IF b THEN "true" ELSE "false"

\* the map m after envMap[k] = n[k] for every key k of n
MapAssign(m, n) ==
  [k \in DOMAIN m \cup DOMAIN n |-> IF k \in DOMAIN n THEN n[k] ELSE m[k]]

\* hookEnvMapParams; a field left out of the literal is false
HookEnvMapParams(isDryRunFailover, isPreFailover, isPostFailover) ==
  [isDryRunFailover |-> isDryRunFailover, isPreFailover |-> isPreFailover,
   isPostFailover |-> isPostFailover]

\* the entries both getHookEnvMap methods add about the two nodes (the host
\* names and the validator client versions are left out)
NodeEntries(this, peer) ==
  [THIS_NODE_PUBLIC_IP |-> this.PublicIP,
   THIS_NODE_ACTIVE_IDENTITY_PUBKEY |-> PubKey(this.Identities.Active),
   THIS_NODE_ACTIVE_IDENTITY_KEYPAIR_FILE |-> this.Identities.Active.KeyFile,
   THIS_NODE_PASSIVE_IDENTITY_PUBKEY |-> PubKey(this.Identities.Passive),
   THIS_NODE_PASSIVE_IDENTITY_KEYPAIR_FILE |-> this.Identities.Passive.KeyFile,
   PEER_NODE_PUBLIC_IP |-> peer.PublicIP,
   PEER_NODE_ACTIVE_IDENTITY_PUBKEY |-> PubKey(peer.Identities.Active),
   PEER_NODE_PASSIVE_IDENTITY_PUBKEY |-> PubKey(peer.Identities.Passive)]

\* variant: the roles of the post-failover map are those of the pre-failover
\* map
ClientGetHookEnvMapNoSwap(params) ==
  LET e0 == [IS_DRY_RUN_FAILOVER |-> FormatBool(params.isDryRunFailover)]
      e1 == IF params.isPreFailover \/ params.isPostFailover
            THEN MapAssign(e0, [THIS_NODE_ROLE |-> "active",
                                PEER_NODE_ROLE |-> "passive"])
            ELSE e0
  IN MapAssign(e1, NodeEntries(ActiveNodeInfoOf(cfg), cmsg.PassiveNodeInfo))

\* Client.getHookEnvMap
ClientGetHookEnvMap(params) ==
  LET e0 == [IS_DRY_RUN_FAILOVER |-> FormatBool(params.isDryRunFailover)]
      e1 == IF params.isPreFailover
            THEN MapAssign(e0, [THIS_NODE_ROLE |-> "active",
                                PEER_NODE_ROLE |-> "passive"])
            ELSE e0
      e2 == IF params.isPostFailover
            THEN MapAssign(e1, [THIS_NODE_ROLE |-> "passive",
                                PEER_NODE_ROLE |-> "active"])
            ELSE e1
  IN MapAssign(e2, NodeEntries(ActiveNodeInfoOf(cfg), cmsg.PassiveNodeInfo))

\* Server.getHookEnvMap
ServerGetHookEnvMap(params) ==
  LET e0 == [IS_DRY_RUN_FAILOVER |-> FormatBool(params.isDryRunFailover)]
      e1 == IF params.isPreFailover
            THEN MapAssign(e0, [THIS_NODE_ROLE |-> "passive",
                                PEER_NODE_ROLE |-> "active"])
            ELSE e0
      e2 == IF params.isPostFailover
            THEN MapAssign(e1, [THIS_NODE_ROLE |-> "active",
                                PEER_NODE_ROLE |-> "passive"])
            ELSE e1
  IN MapAssign(e2, NodeEntries(PassiveNodeInfoOf(cfg), smsg.ActiveNodeInfo))

\* a side calls one of the four hook sequences of FailoverHooks with envMap
HookCall(side, sequence, envMap) ==
  [hookCalls EXCEPT ![side] = Append(@, [sequence |-> sequence,
                                          envMap |-> envMap])]

\* the server's build is fixed and the client's build is the same or another
\* one; every combination of flags and sample count for a client that holds
\* the shared active keypair; the flags alone for a client whose active
\* keypair is the server's passive one
Configs ==
  [clientNotADrill : BOOLEAN, serverNotADrill : BOOLEAN,
   clientVersion : Versions, serverVersion : {"1.2.0"},
   noMinTimeToLeaderSlot : BOOLEAN,
   monitorCount : 0..MaxMonitorCount,
   clientActiveKey : {"PubActive"}]
  \cup
  [clientNotADrill : BOOLEAN, serverNotADrill : BOOLEAN,
   clientVersion : {"1.2.0"}, serverVersion : {"1.2.0"},
   noMinTimeToLeaderSlot : {TRUE},
   monitorCount : {MaxMonitorCount},
   clientActiveKey : ActiveKeys \ {"PubActive"}]

\* no hook sequence and no ranking call is being run on its own
IdleHookRun == [pc |-> "idle"]
IdleRanking == [pc |-> "idle"]
IdleHandlers == [pc |-> "idle"]
IdleSlotCache == [pc |-> "idle"]
IdleHookProc == [pc |-> "idle"]
IdleLeaderSlot == [pc |-> "idle"]
IdleGossipLoop == [pc |-> "idle"]

\* tower file states: absent, present with size 0, present with content
TowerFileStates ==
  {[exists |-> FALSE, size |-> 0], [exists |-> TRUE, size |-> 0],
   [exists |-> TRUE, size |-> 1]}

\* a Validator and what its NewFromConfig is given, with the flags of the run
\* command: Identities are the pubkeys of the two configured key files,
\* GossipNode is the pubkey configureGossipNode finds for the public IP,
\* cluster the pubkeys GetClusterNodes reports
ValidatorOf(gossipNode, others, noWait, autoDelete, tower) ==
  [pc |-> "new",
   Identities |-> [Active |-> "PubActive", Passive |-> "PubPassive"],
   GossipNode |-> gossipNode,
   cluster |-> {gossipNode} \cup others,
   NoWaitForHealthy |-> noWait,
   TowerFileAutoDeleteWhenPassive |-> autoDelete,
   TowerFile |-> "/tower/H",
   towerAtStart |-> tower,
   tower |-> tower,
   listenerBound |-> FALSE,
   dialed |-> FALSE,
   err |-> "",
   log |-> <<>>]

\* every combination of gossip and flags for the usual pair of key files,
\* and every pair of key files, equal ones included, for one choice of flags
Validators ==
  {ValidatorOf(g, o, w, a, t) :
     g \in {"PubActive", "PubPassive", "PubOther"},
     o \in SUBSET {"PubActive", "PubPassive"},
     w \in BOOLEAN, a \in BOOLEAN, t \in TowerFileStates}
  \cup
  {[ValidatorOf(g, {"PubActive", "PubPassive"}, TRUE, TRUE,
                [exists |-> TRUE, size |-> 1])
      EXCEPT !.Identities = [Active |-> a, Passive |-> p]] :
     g \in {"PubActive", "PubPassive", "PubOther"},
     a \in {"PubActive", "PubPassive"}, p \in {"PubActive", "PubPassive"}}

Init ==
  /\ coord = ValidatorOf("PubPassive", {"PubActive"}, FALSE, FALSE,
                         [exists |-> FALSE, size |-> 0])
  /\ cfg \in Configs
  /\ cpc = "start"
  /\ spc = "listening"
  /\ cmsg = ZeroMessage
  /\ smsg = ZeroMessage
  /\ msgType = 0
  /\ wire = <<>>
  /\ cread = 0
  /\ sread = 0
  /\ cexit = "running"
  /\ sexit = "running"
  /\ identity = [h \in Hosts |-> IF h = "A" THEN "active" ELSE "passive"]
  /\ towerB = [exists |-> FALSE, bytes |-> <<>>]
  /\ listener = "open"
  /\ ctxCancelled = FALSE
  /\ remainingRetries = LeaderMaxRetries
  /\ gossipCheck = [retryCount |-> 0, active |-> FALSE, passive |-> FALSE]
  /\ chist = <<>>
  /\ shist = <<>>
  /\ hookCalls = [c |-> <<>>, s |-> <<>>]
  /\ hookRun = IdleHookRun
  /\ ranking = IdleRanking
  /\ handlers = IdleHandlers
  /\ slotCache = IdleSlotCache
  /\ hookProc = IdleHookProc
  /\ leaderSlot = IdleLeaderSlot
  /\ gossipLoop = IdleGossipLoop

(* ----------------------------- the stream ----------------------------- *)
FromClient == SelectSeq(wire, LAMBDA e : e.from = "c")
FromServer == SelectSeq(wire, LAMBDA e : e.from = "s")

ClientCanDecode == Len(FromServer) > cread
ServerCanDecode == Len(FromClient) > sread

\* the server's end of the stream is gone: the handler returned (deferred
\* stream.Close in handleStream) or the process exited
ServerStreamGone == sexit # "running" \/ spc \in {"returned", "closed"}
\* variant: the server never learns that the client is gone
ClientStreamGoneUnnoticed == FALSE
\* the client's end is gone: Client.Start returned or the process exited
ClientStreamGone == cexit # "running"

\* Stream.Encode by the given side
Encode(side, m) == Append(wire, [from |-> side, msg |-> m])

CLog(evs) == chist \o evs
SLog(evs) == shist \o evs

\* time.Now() when a side takes the stamp e: the readings of a side's clock
\* never decrease, and the reading is modelled by the place the stamp has in
\* the log of the side's steps (0 is the zero time.Time: no stamp taken)
Now(log, e) ==
  IF \E i \in DOMAIN log : log[i] = e
  THEN CHOOSE i \in DOMAIN log : log[i] = e
  ELSE 0

(* ------------------------ Client.Start (host A) ------------------------ *)
ClientFatal(evs) ==
  /\ cpc' = "fatal"
  /\ cexit' = "exit1"
  /\ chist' = CLog(evs \o <<"c_exit1">>)

\* Client.Start returns: makePassive returns nil and the process exits 0
ClientReturn(evs) ==
  /\ cpc' = "returned"
  /\ cexit' = "exit0"
  /\ chist' = CLog(evs \o <<"c_exit0">>)

\* open the stream, write the message-type byte, encode the initial message
ClientInitiate ==
  /\ cpc = "start" /\ cexit = "running"
  /\ msgType' = MessageTypeFailoverInitiateRequest
  /\ cmsg' = [cmsg EXCEPT !.ActiveNodeInfo = ActiveNodeInfoOf(cfg)]
  /\ wire' = Encode("c", cmsg')
  /\ cpc' = "await_admit"
  /\ chist' = CLog(<<"c_enc">>)
  /\ UNCHANGED <<libVars, coord, hookCalls, cfg, spc, smsg, cread, sread, cexit, sexit, identity, towerB,
                 listener, ctxCancelled, remainingRetries, gossipCheck, shist>>

\* variant: the admission decision is not read
GetCanProceedAlways(m) == TRUE

\* Stream.GetCanProceed as Client.Start reads it after the admission decode
GetCanProceed(m) == m.CanProceed

\* wait for the failover signal: Decode, version check, can_proceed check
ClientAwaitAdmission ==
  /\ cpc = "await_admit" /\ cexit = "running"
  /\ \/ /\ ClientCanDecode
        /\ LET m == GobDecode(cmsg, FromServer[cread + 1].msg) IN
           /\ cmsg' = m
           /\ cread' = cread + 1
           /\ IF m.PassiveNodeInfo.SolanaValidatorFailoverVersion
                  # cfg.clientVersion
              THEN ClientFatal(<<"c_dec", "c_version_mismatch">>)
              ELSE IF ~GetCanProceed(m)
              THEN ClientFatal(<<"c_dec", "c_cannot_proceed">>)
              ELSE /\ cpc' = "leader_gate"
                   /\ chist' = CLog(<<"c_dec", "c_can_proceed">>)
                   /\ UNCHANGED cexit
     \/ /\ ~ClientCanDecode /\ ServerStreamGone
        /\ ClientFatal(<<"c_dec_err">>)
        /\ UNCHANGED <<cmsg, cread>>
  /\ UNCHANGED <<libVars, coord, hookCalls, cfg, spc, smsg, msgType, wire, sread, sexit, identity, towerB,
                 listener, ctxCancelled, remainingRetries, gossipCheck, shist>>

\* variant: the first failed poll already ends the wait with an error
LeaderGateStepNoRetry(poll, retries) ==
  IF poll = "err" THEN "fail"
  ELSE IF poll = "not_on_schedule" THEN "proceed"
  ELSE IF poll = "too_soon" THEN "wait"
  ELSE "proceed"

\* variant: a time below the minimum does not keep the loop going
LeaderGateStepNoWait(poll, retries) ==
  IF poll = "err" THEN (IF retries = 0 THEN "fail" ELSE "retry")
  ELSE "proceed"

\* the loop body of waitMinTimeToLeaderSlot for one poll of
\* GetTimeToNextLeaderSlotForPubkey
LeaderGateStep(poll, retries) ==
  IF poll = "err" THEN (IF retries = 0 THEN "fail" ELSE "retry")
  ELSE IF poll = "not_on_schedule" THEN "proceed"
  ELSE IF poll = "too_soon" THEN "wait"
  ELSE "proceed"

\* one iteration of waitMinTimeToLeaderSlot (or its early return when the
\* gate is disabled); poll is the outcome of GetTimeToNextLeaderSlotForPubkey
ClientLeaderGate ==
  /\ cpc = "leader_gate" /\ cexit = "running"
  /\ IF cfg.noMinTimeToLeaderSlot
     THEN /\ cpc' = "pre_hooks"
          /\ chist' = CLog(<<"c_gate_skipped">>)
          /\ UNCHANGED <<cexit, remainingRetries>>
     ELSE \E poll \in {"err", "not_on_schedule", "too_soon", "far_enough"} :
            CASE LeaderGateStep(poll, remainingRetries) = "fail" ->
                   /\ ClientFatal(<<"c_gate_poll", "c_gate_err">>)
                   /\ UNCHANGED remainingRetries
              [] LeaderGateStep(poll, remainingRetries) = "retry" ->
                   /\ remainingRetries' = remainingRetries - 1
                   /\ UNCHANGED <<cpc, cexit, chist>>
              [] LeaderGateStep(poll, remainingRetries) = "wait" ->
                   UNCHANGED <<cpc, cexit, remainingRetries, chist>>
              [] OTHER ->
                   /\ cpc' = "pre_hooks"
                   /\ chist' = CLog(<<"c_gate_poll",
                                      IF poll = "too_soon"
                                      THEN "c_poll_too_soon"
                                      ELSE "c_poll_pass",
                                      "c_gate_ok">>)
                   /\ remainingRetries' = LeaderMaxRetries
                   /\ UNCHANGED cexit
  /\ UNCHANGED <<libVars, coord, hookCalls, cfg, spc, cmsg, smsg, msgType, wire, cread, sread, sexit,
                 identity, towerB, listener, ctxCancelled, gossipCheck, shist>>

\* hooks.RunPreWhenActive
ClientPreHooks ==
  /\ cpc = "pre_hooks" /\ cexit = "running"
  /\ hookCalls' = HookCall("c", "Pre.WhenActive",
                            ClientGetHookEnvMap(HookEnvMapParams(
                              cmsg.IsDryRunFailover, TRUE, FALSE)))
  /\ \E hooks \in HookLists : \E ok \in [1..Len(hooks) -> BOOLEAN] :
       IF RunPreHooks(hooks, ok).err
       THEN ClientFatal(<<"c_pre_hooks", "c_pre_hooks_err">>)
       ELSE /\ cpc' = "slot_align"
            /\ chist' = CLog(<<"c_pre_hooks">>)
            /\ UNCHANGED cexit
  /\ UNCHANGED <<libVars, coord, cfg, spc, cmsg, smsg, msgType, wire, cread, sread, sexit,
                 identity, towerB, listener, ctxCancelled, remainingRetries,
                 gossipCheck, shist>>

\* GetCurrentSlot, SetFailoverStartSlot(slot + 1), waitUntilStartOfNextSlot
ClientSlotAlign ==
  /\ cpc = "slot_align" /\ cexit = "running"
  /\ \E slot \in {-1} \cup (0..MaxSlot) : \E endTimeOk \in BOOLEAN :
       IF slot = -1
       THEN /\ ClientFatal(<<"c_slot_err">>)
            /\ UNCHANGED cmsg
       ELSE /\ cmsg' = [cmsg EXCEPT !.FailoverStartSlot = slot + 1]
            /\ IF ~endTimeOk
               THEN ClientFatal(<<"c_slot", "c_wait_next_slot",
                                  "c_slot_end_err">>)
               ELSE /\ cpc' = "set_identity"
                    /\ chist' = CLog(<<"c_slot", "c_wait_next_slot">>)
                    /\ UNCHANGED cexit
  /\ UNCHANGED <<libVars, coord, hookCalls, cfg, spc, smsg, msgType, wire, cread, sread, sexit, identity,
                 towerB, listener, ctxCancelled, remainingRetries,
                 gossipCheck, shist>>

\* variant: the end stamp is taken before the command is run
ClientSetIdentityStampedEarly(r) ==
  IF r.err
  THEN <<"c_stamp_set_identity_start", "c_stamp_set_identity_end",
         "c_run_command">>
         \o (IF r.started THEN <<"c_exec">> ELSE <<>>) \o <<"c_exec_failed">>
  ELSE <<"c_stamp_set_identity_start", "c_stamp_set_identity_end",
         "c_run_command">>
         \o (IF r.started THEN <<"c_exec">> ELSE <<>>)
         \o <<"c_set_identity_ok">>

\* what Client.Start does around its set-identity command, r being the
\* result of RunCommand: the start stamp, the command, and the end stamp
\* when the command returned no error
ClientSetIdentityStamped(r) ==
  IF r.err
  THEN <<"c_stamp_set_identity_start", "c_run_command">>
         \o (IF r.started THEN <<"c_exec">> ELSE <<>>) \o <<"c_exec_failed">>
  ELSE <<"c_stamp_set_identity_start", "c_run_command">>
         \o (IF r.started THEN <<"c_exec">> ELSE <<>>)
         \o <<"c_set_identity_ok", "c_stamp_set_identity_end">>

\* SetActiveNodeSetIdentityStartTime, utils.RunCommand with the active
\* node's set-identity command, SetActiveNodeSetIdentityEndTime
ClientSetIdentity ==
  /\ cpc = "set_identity" /\ cexit = "running"
  /\ \E exitOk \in BOOLEAN :
       LET r == RunCommand(ClientIsDryRun(cfg, cmsg), exitOk)
           ev == ClientSetIdentityStamped(r)
       IN /\ cmsg' = [cmsg EXCEPT
                        !.ActiveNodeSetIdentityStartTime =
                           Now(CLog(ev), "c_stamp_set_identity_start"),
                        !.ActiveNodeSetIdentityEndTime =
                           Now(CLog(ev), "c_stamp_set_identity_end")]
          /\ IF r.err
             THEN /\ ClientReturn(ev)
                  /\ UNCHANGED identity
             ELSE /\ identity' = IF r.started /\ exitOk
                                 THEN [identity EXCEPT !["A"] = "passive"]
                                 ELSE identity
                  /\ cpc' = "send_tower"
                  /\ chist' = CLog(ev)
                  /\ UNCHANGED cexit
  /\ UNCHANGED <<libVars, coord, hookCalls, cfg, spc, smsg, msgType, wire, cread, sread, sexit,
                 towerB, listener, ctxCancelled, remainingRetries,
                 gossipCheck, shist>>

\* variant: the message is encoded although the tower file was not read
ClientSendTowerReadErrorIgnored ==
  /\ cpc = "send_tower" /\ cexit = "running"
  /\ \/ /\ cmsg' = [cmsg EXCEPT
                       !.ActiveNodeSyncTowerFileStartTime =
                          Now(CLog(<<"c_stamp_sync_tower_start">>),
                              "c_stamp_sync_tower_start")]
        /\ wire' = Encode("c", cmsg')
        /\ cpc' = "await_done"
        /\ chist' = CLog(<<"c_stamp_sync_tower_start", "c_tower_read_err",
                           "c_enc">>)
        /\ UNCHANGED cexit
     \/ \E towerFileBytes \in TowerContents :
          LET ev == <<"c_stamp_sync_tower_start", "c_tower_read",
                      "c_stamp_sync_tower_end", "c_enc">>
          IN
          /\ cmsg' = [cmsg EXCEPT
                        !.ActiveNodeInfo.TowerFileBytes = towerFileBytes,
                        !.ActiveNodeInfo.TowerFileHash =
                           ComputeTowerFileHashFromBytes(towerFileBytes),
                        !.ActiveNodeSyncTowerFileStartTime =
                           Now(CLog(ev), "c_stamp_sync_tower_start"),
                        !.ActiveNodeSyncTowerFileEndTime =
                           Now(CLog(ev), "c_stamp_sync_tower_end")]
          /\ wire' = Encode("c", cmsg')
          /\ cpc' = "await_done"
          /\ chist' = CLog(ev)
          /\ UNCHANGED cexit
  /\ UNCHANGED <<libVars, coord, hookCalls, cfg, spc, smsg, msgType, cread, sread, sexit, identity,
                 towerB, listener, ctxCancelled, remainingRetries,
                 gossipCheck, shist>>

\* SetActiveNodeSyncTowerFileStartTime, NodeInfo.SetTowerFileBytes
\* (os.ReadFile, setTowerFileHash), SetActiveNodeSyncTowerFileEndTime, Encode
ClientSendTower ==
  /\ cpc = "send_tower" /\ cexit = "running"
  /\ \/ /\ cmsg' = [cmsg EXCEPT
                       !.ActiveNodeSyncTowerFileStartTime =
                          Now(CLog(<<"c_stamp_sync_tower_start">>),
                              "c_stamp_sync_tower_start")]
        /\ ClientReturn(<<"c_stamp_sync_tower_start", "c_tower_read_err">>)
        /\ UNCHANGED wire
     \/ \E towerFileBytes \in TowerContents :
          LET ev == <<"c_stamp_sync_tower_start", "c_tower_read",
                      "c_stamp_sync_tower_end", "c_enc">>
          IN
          /\ cmsg' = [cmsg EXCEPT
                        !.ActiveNodeInfo.TowerFileBytes = towerFileBytes,
                        !.ActiveNodeInfo.TowerFileHash =
                           ComputeTowerFileHashFromBytes(towerFileBytes),
                        !.ActiveNodeSyncTowerFileStartTime =
                           Now(CLog(ev), "c_stamp_sync_tower_start"),
                        !.ActiveNodeSyncTowerFileEndTime =
                           Now(CLog(ev), "c_stamp_sync_tower_end")]
          /\ wire' = Encode("c", cmsg')
          /\ cpc' = "await_done"
          /\ chist' = CLog(ev)
          /\ UNCHANGED cexit
  /\ UNCHANGED <<libVars, coord, hookCalls, cfg, spc, smsg, msgType, cread, sread, sexit, identity,
                 towerB, listener, ctxCancelled, remainingRetries,
                 gossipCheck, shist>>

\* wait for the completion message: Decode, GetIsSuccessfullyCompleted
ClientAwaitCompletion ==
  /\ cpc = "await_done" /\ cexit = "running"
  /\ \/ /\ ClientCanDecode
        /\ LET m == GobDecode(cmsg, FromServer[cread + 1].msg) IN
           /\ cmsg' = m
           /\ cread' = cread + 1
           /\ IF ~m.IsSuccessfullyCompleted
              THEN ClientReturn(<<"c_dec", "c_not_completed">>)
              ELSE /\ cpc' = "post_hooks"
                   /\ chist' = CLog(<<"c_dec", "c_completed">>)
                   /\ UNCHANGED cexit
     \/ /\ ~ClientCanDecode /\ ServerStreamGone
        /\ ClientReturn(<<"c_dec_err">>)
        /\ UNCHANGED <<cmsg, cread>>
  /\ UNCHANGED <<libVars, coord, hookCalls, cfg, spc, smsg, msgType, wire, sread, sexit, identity, towerB,
                 listener, ctxCancelled, remainingRetries, gossipCheck, shist>>

\* hooks.RunPostWhenPassive, after which Start returns
ClientPostHooks ==
  /\ cpc = "post_hooks" /\ cexit = "running"
  /\ hookCalls' = HookCall("c", "Post.WhenPassive",
                            ClientGetHookEnvMap(HookEnvMapParams(
                              cmsg.IsDryRunFailover, FALSE, TRUE)))
  /\ \E hooks \in HookLists : \E ok \in [1..Len(hooks) -> BOOLEAN] :
       ClientReturn(<<"c_post_hooks">>)
  /\ UNCHANGED <<libVars, coord, cfg, spc, cmsg, smsg, msgType, wire, cread, sread, sexit,
                 identity, towerB, listener, ctxCancelled, remainingRetries,
                 gossipCheck, shist>>

(* ------------- Server.handleFailoverStream (host B) -------------------- *)
\* zerolog Fatal: the process exits with code 1
ServerFatal(evs) ==
  /\ spc' = "fatal"
  /\ sexit' = "exit1"
  /\ shist' = SLog(evs \o <<"s_exit1">>)

\* the handler returns; the accept loop of Server.Start keeps running
ServerReturn(evs) ==
  /\ spc' = "returned"
  /\ shist' = SLog(evs \o <<"s_return">>)
  /\ UNCHANGED sexit

\* variant: the message is encoded without an error_message
ServerEncodeErrorNoText(m, text) ==
  /\ smsg' = m
  /\ wire' = Encode("s", smsg')

\* set error_message and encode it to the client
ServerEncodeError(m, text) ==
  /\ smsg' = [m EXCEPT !.ErrorMessage = text]
  /\ wire' = Encode("s", smsg')

\* variant: the server does not compare the versions
ServerVersionNotChecked(m, c) == FALSE

\* the server's version check: clientVersion != serverVersion
ServerVersionMismatch(m, c) ==
  m.ActiveNodeInfo.SolanaValidatorFailoverVersion # c.serverVersion

\* handleStream reads the type byte; handleFailoverStream decodes the
\* initial message, attaches is_dry_run and its NodeInfo, checks the version
ServerDecodeInit ==
  /\ spc = "listening" /\ sexit = "running"
  /\ msgType # 0
  /\ IF msgType # MessageTypeFailoverInitiateRequest
     THEN /\ ServerReturn(<<"s_unknown_type">>)
          /\ UNCHANGED <<smsg, wire, sread>>
     ELSE /\ ServerCanDecode
          /\ sread' = sread + 1
          /\ LET d == GobDecode(ZeroMessage, FromClient[sread + 1].msg)
                 m == [d EXCEPT !.IsDryRunFailover = ServerIsDryRun(cfg),
                                !.PassiveNodeInfo = PassiveNodeInfoOf(cfg)]
             IN IF ServerVersionMismatch(m, cfg)
                THEN /\ ServerEncodeError(m, "version mismatch")
                     /\ ServerFatal(<<"s_dec", "s_enc_err">>)
                ELSE /\ smsg' = m
                     /\ spc' = "peer_validation"
                     /\ shist' = SLog(<<"s_dec", "s_version_ok">>)
                     /\ UNCHANGED <<wire, sexit>>
  /\ UNCHANGED <<libVars, coord, hookCalls, cfg, cpc, cmsg, msgType, cread, cexit, identity, towerB,
                 listener, ctxCancelled, remainingRetries, gossipCheck, chist>>

\* what GetClusterNodes may report for host h: nothing, the pubkey the host
\* advertised when the run started, or the pubkey of its current identity
GossipPubkeys(h) ==
  {"", PubOf(h, IF h = "A" THEN "active" ELSE "passive"),
   PubOf(h, identity[h])}

\* Client.NodeFromIP: the node whose gossip address has this IP, or an error
\* (RPC failure or no such node); pubkey "" stands for the error
NodeFromIP(ip, pubkey) ==
  IF pubkey = "" THEN [err |-> TRUE, ip |-> "", pubkey |-> ""]
  ELSE [err |-> FALSE, ip |-> ip, pubkey |-> pubkey]

\* variant: the handler goes on after it has encoded the validation error
ServerPeerValidationNoReturn ==
  /\ spc = "peer_validation" /\ sexit = "running"
  /\ \E pk \in GossipPubkeys("A") :
       LET gossipActiveNode == NodeFromIP(smsg.ActiveNodeInfo.PublicIP, pk)
       IN IF gossipActiveNode.err
             \/ gossipActiveNode.ip # smsg.ActiveNodeInfo.PublicIP
          THEN /\ ServerEncodeError(smsg, "failed to validate active node")
               /\ spc' = "confirm"
               /\ shist' = SLog(<<"s_enc_err">>)
               /\ UNCHANGED sexit
          ELSE /\ spc' = "confirm"
               /\ shist' = SLog(<<"s_peer_ok">>)
               /\ UNCHANGED <<smsg, wire, sexit>>
  /\ UNCHANGED <<libVars, coord, hookCalls, cfg, cpc, cmsg, msgType, cread, sread, cexit, identity,
                 towerB, listener, ctxCancelled, remainingRetries,
                 gossipCheck, chist>>

\* query gossip for the client by its public IP and compare the IPs
ServerPeerValidation ==
  /\ spc = "peer_validation" /\ sexit = "running"
  /\ \E pk \in GossipPubkeys("A") :
       LET gossipActiveNode == NodeFromIP(smsg.ActiveNodeInfo.PublicIP, pk)
       IN IF gossipActiveNode.err
             \/ gossipActiveNode.ip # smsg.ActiveNodeInfo.PublicIP
          THEN /\ ServerEncodeError(smsg, "failed to validate active node")
               /\ ServerReturn(<<"s_enc_err">>)
          ELSE /\ spc' = "confirm"
               /\ shist' = SLog(<<"s_peer_ok">>)
               /\ UNCHANGED <<smsg, wire, sexit>>
  /\ UNCHANGED <<libVars, coord, hookCalls, cfg, cpc, cmsg, msgType, cread, sread, cexit, identity,
                 towerB, listener, ctxCancelled, remainingRetries,
                 gossipCheck, chist>>

\* variant: the process does not exit after a declined confirmation
ServerConfirmNoExit ==
  /\ spc = "confirm" /\ sexit = "running"
  /\ \E confirmFailover \in BOOLEAN :
       IF ~confirmFailover
       THEN /\ ServerEncodeError(smsg, "server cancelled failover")
            /\ listener' = "closed"
            /\ ctxCancelled' = TRUE
            /\ spc' = "preflight_sample"
            /\ shist' = SLog(<<"s_declined", "s_enc_err", "s_listener_closed">>)
            /\ UNCHANGED sexit
       ELSE /\ spc' = "preflight_sample"
            /\ shist' = SLog(<<"s_confirmed">>)
            /\ UNCHANGED <<smsg, wire, sexit, listener, ctxCancelled>>
  /\ UNCHANGED <<libVars, coord, hookCalls, cfg, cpc, cmsg, msgType, cread, sread, cexit, identity,
                 towerB, remainingRetries, gossipCheck, chist>>

\* Stream.ConfirmFailover: the operator answers the prompt
ServerConfirm ==
  /\ spc = "confirm" /\ sexit = "running"
  /\ \E confirmFailover \in BOOLEAN :
       IF ~confirmFailover
       THEN /\ ServerEncodeError(smsg, "server cancelled failover")
            /\ listener' = "closed"
            /\ ctxCancelled' = TRUE
            /\ ServerFatal(<<"s_declined", "s_enc_err", "s_listener_closed">>)
       ELSE /\ spc' = "preflight_sample"
            /\ shist' = SLog(<<"s_confirmed">>)
            /\ UNCHANGED <<smsg, wire, sexit, listener, ctxCancelled>>
  /\ UNCHANGED <<libVars, coord, hookCalls, cfg, cpc, cmsg, msgType, cread, sread, cexit, identity,
                 towerB, remainingRetries, gossipCheck, chist>>

\* variant: the new sample is put in front of the earlier ones
PullActiveIdentityVoteCreditsSamplePrepends(samples, rank, now) ==
  IF rank = 0 THEN [err |-> TRUE, samples |-> samples]
  ELSE [err |-> FALSE,
        samples |-> <<[VoteRank |-> rank, Timestamp |-> now]>> \o samples]

\* Stream.PullActiveIdentityVoteCreditsSample: rank 0 stands for an error of
\* GetCreditRankedVoteAccountFromPubkey; a success appends one sample with
\* the rank and Timestamp: time.Now(), now being the reading of the clock
PullActiveIdentityVoteCreditsSample(samples, rank, now) ==
  IF rank = 0 THEN [err |-> TRUE, samples |-> samples]
  ELSE [err |-> FALSE,
        samples |-> Append(samples, [VoteRank |-> rank, Timestamp |-> now])]

\* the pre-failover sample: PullActiveIdentityVoteCreditsSamples(client, 1)
ServerPreflightSample ==
  /\ spc = "preflight_sample" /\ sexit = "running"
  /\ \E rank \in 0..MaxRank :
       LET r == PullActiveIdentityVoteCreditsSample(
                  smsg.CreditSamples, rank,
                  Now(SLog(<<"s_sample">>), "s_sample"))
       IN IF r.err
          THEN /\ ServerEncodeError(smsg, "failed to pull credits sample")
               /\ ServerReturn(<<"s_enc_err">>)
          ELSE /\ smsg' = [smsg EXCEPT !.CreditSamples = r.samples]
               /\ spc' = "tower_open"
               /\ shist' = SLog(<<"s_sample">>)
               /\ UNCHANGED <<wire, sexit>>
  /\ UNCHANGED <<libVars, coord, hookCalls, cfg, cpc, cmsg, msgType, cread, sread, cexit, identity,
                 towerB, listener, ctxCancelled, remainingRetries,
                 gossipCheck, chist>>

\* variant: the file is opened without O_CREATE
OpenFileNoCreate(file) == file

\* what os.OpenFile with O_WRONLY|O_CREATE|O_TRUNC leaves on disk when it
\* succeeds: the file exists and is empty
OpenFileCreateTrunc(file) == [exists |-> TRUE, bytes |-> <<>>]

\* os.OpenFile(tower file, O_WRONLY|O_CREATE|O_TRUNC, 0644)
ServerTowerOpen ==
  /\ spc = "tower_open" /\ sexit = "running"
  /\ \E opened \in BOOLEAN :
       IF ~opened
       THEN /\ ServerEncodeError(smsg, "failed to open tower file")
            /\ ServerReturn(<<"s_enc_err">>)
            /\ UNCHANGED towerB
       ELSE /\ towerB' = OpenFileCreateTrunc(towerB)
            /\ spc' = "pre_hooks"
            /\ shist' = SLog(<<"s_tower_open">>)
            /\ UNCHANGED <<smsg, wire, sexit>>
  /\ UNCHANGED <<libVars, coord, hookCalls, cfg, cpc, cmsg, msgType, cread, sread, cexit, identity,
                 listener, ctxCancelled, remainingRetries, gossipCheck, chist>>

\* hooks.RunPreWhenPassive, then SetCanProceed(true) and Encode
ServerPreHooksAdmit ==
  /\ spc = "pre_hooks" /\ sexit = "running"
  /\ hookCalls' = HookCall("s", "Pre.WhenPassive",
                            ServerGetHookEnvMap(HookEnvMapParams(
                              ServerIsDryRun(cfg), TRUE, FALSE)))
  /\ \E hooks \in HookLists : \E ok \in [1..Len(hooks) -> BOOLEAN] :
       LET ran == IF MustSucceedHookFailed(hooks, ok)
                  THEN <<"s_pre_hooks", "s_hook_failed">>
                  ELSE <<"s_pre_hooks">>
       IN
       IF RunPreHooks(hooks, ok).err
       THEN /\ ServerEncodeError(smsg, "failed to run pre-failover hooks")
            /\ ServerFatal(ran \o <<"s_enc_err">>)
       ELSE /\ smsg' = [smsg EXCEPT !.CanProceed = TRUE]
            /\ wire' = Encode("s", smsg')
            /\ spc' = "await_tower"
            /\ shist' = SLog(ran \o <<"s_enc_admit">>)
            /\ UNCHANGED sexit
  /\ UNCHANGED <<libVars, coord, cfg, cpc, cmsg, msgType, cread, sread, cexit, identity,
                 towerB, listener, ctxCancelled, remainingRetries,
                 gossipCheck, chist>>

\* variant: the received bytes are accepted without comparing the hashes
TowerFileHashNotChecked(m) == TRUE

\* the check of the received tower bytes against the declared hash
TowerFileHashMatches(m) ==
  ComputeTowerFileHashFromBytes(m.ActiveNodeInfo.TowerFileBytes)
    = m.ActiveNodeInfo.TowerFileHash

\* wait for the tower message: Decode, then the hash check.  The bytes that
\* arrive are whatever the peer put on the stream: they need not be the bytes
\* whose hash it declared
ServerDecodeTower ==
  /\ spc = "await_tower" /\ sexit = "running"
  /\ \/ /\ ServerCanDecode
        /\ \E received \in TowerContents :
             LET sent == FromClient[sread + 1].msg
                 m == GobDecode(smsg,
                        [sent EXCEPT !.ActiveNodeInfo.TowerFileBytes = received])
             IN /\ smsg' = m
                /\ sread' = sread + 1
                /\ IF ~TowerFileHashMatches(m)
                   THEN ServerFatal(<<"s_dec", "s_hash_mismatch">>)
                   ELSE /\ spc' = "write_tower"
                        /\ shist' = SLog(<<"s_dec", "s_hash_ok">>)
                        /\ UNCHANGED sexit
     \/ /\ ~ServerCanDecode /\ ClientStreamGone
        /\ ServerReturn(<<"s_dec_err">>)
        /\ UNCHANGED <<smsg, sread>>
  /\ UNCHANGED <<libVars, coord, hookCalls, cfg, cpc, cmsg, msgType, wire, cread, cexit, identity, towerB,
                 listener, ctxCancelled, remainingRetries, gossipCheck, chist>>

\* towerFile.Write, towerFile.Close, SetPassiveNodeSyncTowerFileEndTime
ServerWriteTower ==
  /\ spc = "write_tower" /\ sexit = "running"
  /\ \E written \in BOOLEAN : \E closed \in BOOLEAN :
       IF ~written
       THEN /\ ServerReturn(<<"s_write_err">>)
            /\ UNCHANGED <<towerB, smsg>>
       ELSE /\ towerB' =
                 [towerB EXCEPT !.bytes = smsg.ActiveNodeInfo.TowerFileBytes]
            /\ IF ~closed
               THEN /\ ServerReturn(<<"s_write", "s_close_err">>)
                    /\ UNCHANGED smsg
               ELSE /\ spc' = "set_identity"
                    /\ shist' = SLog(<<"s_write", "s_stamp_sync_tower_end">>)
                    /\ smsg' = [smsg EXCEPT
                                  !.PassiveNodeSyncTowerFileEndTime =
                                     Now(shist', "s_stamp_sync_tower_end")]
                    /\ UNCHANGED sexit
  /\ UNCHANGED <<libVars, coord, hookCalls, cfg, cpc, cmsg, msgType, wire, cread, sread, cexit,
                 identity, listener, ctxCancelled, remainingRetries,
                 gossipCheck, chist>>

\* what handleFailoverStream does around its set-identity command, r being
\* the result of RunCommand: the start stamp, the command, and the end stamp
\* when the command returned no error
ServerSetIdentityStamped(r) ==
  IF r.err
  THEN <<"s_stamp_set_identity_start", "s_run_command">>
         \o (IF r.started THEN <<"s_exec">> ELSE <<>>) \o <<"s_exec_failed">>
  ELSE <<"s_stamp_set_identity_start", "s_run_command">>
         \o (IF r.started THEN <<"s_exec">> ELSE <<>>)
         \o <<"s_set_identity_ok", "s_stamp_set_identity_end">>

\* SetPassiveNodeSetIdentityStartTime, utils.RunCommand with the passive
\* node's set-identity command, SetPassiveNodeSetIdentityEndTime
ServerSetIdentity ==
  /\ spc = "set_identity" /\ sexit = "running"
  /\ \E exitOk \in BOOLEAN :
       LET r == RunCommand(ServerIsDryRun(cfg), exitOk)
           ev == ServerSetIdentityStamped(r)
       IN /\ smsg' = [smsg EXCEPT
                        !.PassiveNodeSetIdentityStartTime =
                           Now(SLog(ev), "s_stamp_set_identity_start"),
                        !.PassiveNodeSetIdentityEndTime =
                           Now(SLog(ev), "s_stamp_set_identity_end")]
          /\ IF r.err
             THEN /\ ServerFatal(ev)
                  /\ UNCHANGED identity
             ELSE /\ identity' = IF r.started /\ exitOk
                                 THEN [identity EXCEPT !["B"] = "active"]
                                 ELSE identity
                  /\ spc' = "slot_markers"
                  /\ shist' = SLog(ev)
                  /\ UNCHANGED sexit
  /\ UNCHANGED <<libVars, coord, hookCalls, cfg, cpc, cmsg, msgType, wire, cread, sread, cexit,
                 towerB, listener, ctxCancelled, remainingRetries,
                 gossipCheck, chist>>

\* the failover_end_slot the server leaves in the message: slot -1 stands
\* for an error of GetCurrentSlot, which is logged and ignored
FailoverEndSlotAfter(m, slot) ==
  IF slot = -1 THEN m.FailoverEndSlot
  ELSE IF slot < m.FailoverStartSlot THEN m.FailoverStartSlot
  ELSE slot

\* GetCurrentSlot, SetFailoverEndSlot, SetIsSuccessfullyCompleted(true), Encode
ServerComplete ==
  /\ spc = "slot_markers" /\ sexit = "running"
  /\ \E slot \in {-1} \cup (0..MaxSlot) :
       /\ smsg' = [smsg EXCEPT !.FailoverEndSlot = FailoverEndSlotAfter(smsg, slot),
                               !.IsSuccessfullyCompleted = TRUE]
       /\ wire' = Encode("s", smsg')
       /\ spc' = "post_hooks"
       /\ shist' = SLog(<<"s_get_slot", "s_enc_completed">>)
  /\ UNCHANGED <<libVars, coord, hookCalls, cfg, cpc, cmsg, msgType, cread, sread, cexit, sexit, identity,
                 towerB, listener, ctxCancelled, remainingRetries,
                 gossipCheck, chist>>

\* hooks.RunPostWhenActive; gossip verification follows in a real run only
ServerPostHooks ==
  /\ spc = "post_hooks" /\ sexit = "running"
  /\ hookCalls' = HookCall("s", "Post.WhenActive",
                            ServerGetHookEnvMap(HookEnvMapParams(
                              ServerIsDryRun(cfg), FALSE, TRUE)))
  /\ \E hooks \in HookLists : \E ok \in [1..Len(hooks) -> BOOLEAN] :
       /\ spc' = IF ServerIsDryRun(cfg) THEN "monitor" ELSE "gossip"
       /\ shist' = SLog(<<"s_post_hooks">>)
  /\ UNCHANGED <<libVars, coord, cfg, cpc, cmsg, smsg, msgType, wire, cread, sread, cexit,
                 sexit, identity, towerB, listener, ctxCancelled,
                 remainingRetries, gossipCheck, chist>>

\* variant: the loop ends with the attempt that sees both pubkeys swapped
GossipLoopStopsWhenConfirmed(g) ==
  g.retryCount < GossipMaxRetries /\ ~(g.active /\ g.passive)

\* the loop condition of confirmGossipNodesPostFailover, asked after an
\* attempt that did not return: no branch of the body breaks out of the loop
GossipLoopContinues(g) == g.retryCount < GossipMaxRetries

\* one iteration of the retry loop of confirmGossipNodesPostFailover: every
\* branch taken with retries left sleeps retryDelay and continues the loop,
\* every branch taken without retries left ends it, and an iteration that
\* sees both pubkeys swapped falls through to the loop condition without a
\* sleep; slept tells whether the attempt ended in time.Sleep, err whether
\* NodeFromIP failed in it
GossipAttempt(g, m, pkB, pkA) ==
  LET retryCount == g.retryCount + 1
      solanaActiveNode == NodeFromIP(m.PassiveNodeInfo.PublicIP, pkB)
      solanaPassiveNode == NodeFromIP(m.ActiveNodeInfo.PublicIP, pkA)
      hasRetriesLeft == retryCount < GossipMaxRetries
      isActive == solanaActiveNode.pubkey
                    = PubKey(m.PassiveNodeInfo.Identities.Active)
      isPassive == solanaPassiveNode.pubkey
                     = PubKey(m.ActiveNodeInfo.Identities.Passive)
  IN IF solanaActiveNode.err \/ solanaPassiveNode.err
     THEN [retryCount |-> retryCount,
           active |-> g.active,
           passive |-> g.passive,
           err |-> TRUE,
           slept |-> hasRetriesLeft]
     ELSE [retryCount |-> retryCount,
           active |-> isActive,
           passive |-> isPassive,
           err |-> FALSE,
           slept |-> hasRetriesLeft /\ ~(isActive /\ isPassive)]

\* the variables of confirmGossipNodesPostFailover that outlive an attempt
GossipLocals(g) ==
  [retryCount |-> g.retryCount, active |-> g.active, passive |-> g.passive]

ServerGossipAttempt ==
  /\ spc = "gossip" /\ sexit = "running"
  /\ gossipCheck.retryCount < GossipMaxRetries
  /\ \E pkB \in GossipPubkeys("B") : \E pkA \in GossipPubkeys("A") :
       LET g == GossipAttempt(gossipCheck, smsg, pkB, pkA)
       IN /\ gossipCheck' = GossipLocals(g)
          /\ IF GossipLoopContinues(g)
             THEN UNCHANGED <<spc, shist>>
             ELSE /\ spc' = "monitor"
                  /\ shist' = SLog(IF g.active /\ g.passive
                                 THEN <<"s_gossip_confirmed">>
                                 ELSE <<"s_gossip_unconfirmed">>)
  /\ UNCHANGED <<libVars, coord, hookCalls, cfg, cpc, cmsg, smsg, msgType, wire, cread, sread, cexit,
                 sexit, identity, towerB, listener, ctxCancelled,
                 remainingRetries, chist>>

\* Stream.PullActiveIdentityVoteCreditsSamples(client, nSamples): nothing for
\* 0, one pull whose error is returned for 1, otherwise nSamples pulls whose
\* errors are skipped; ranks[i] = 0 stands for a failed pull; the loop sleeps
\* after every pull that succeeded, so the clock has moved on by then
RECURSIVE PullMany(_, _, _, _)
PullMany(samples, ranks, i, now) ==
  IF i > Len(ranks) THEN samples
  ELSE PullMany(
         PullActiveIdentityVoteCreditsSample(samples, ranks[i], now).samples,
         ranks, i + 1, IF ranks[i] = 0 THEN now ELSE now + 1)

PullActiveIdentityVoteCreditsSamples(samples, nSamples, ranks, now) ==
  IF nSamples = 0 THEN [err |-> FALSE, samples |-> samples]
  ELSE IF nSamples = 1
  THEN PullActiveIdentityVoteCreditsSample(samples, ranks[1], now)
  ELSE [err |-> FALSE, samples |-> PullMany(samples, ranks, 1, now)]

\* Stream.GetVoteCreditRankDifference fails with fewer than two samples
RankDifferenceErr(samples) == Len(samples) < 2

\* post-failover credit monitoring, the rank difference, then the closing of
\* the stream, the connection and the listener and the context's cancel
ServerMonitorAndClose ==
  /\ spc = "monitor" /\ sexit = "running"
  /\ \E ranks \in [1..cfg.monitorCount -> 0..MaxRank] :
       LET r == PullActiveIdentityVoteCreditsSamples(
                  smsg.CreditSamples, cfg.monitorCount, ranks,
                  Len(shist) + 1)
       IN /\ smsg' = [smsg EXCEPT !.CreditSamples = r.samples]
          /\ IF r.err
             THEN /\ ServerReturn(<<"s_monitor_err">>)
                  /\ UNCHANGED <<listener, ctxCancelled>>
             ELSE IF RankDifferenceErr(r.samples)
             THEN /\ ServerReturn(<<"s_monitor", "s_rank_difference_err">>)
                  /\ UNCHANGED <<listener, ctxCancelled>>
             ELSE /\ spc' = "closed"
                  /\ listener' = "closed"
                  /\ ctxCancelled' = TRUE
                  /\ shist' = SLog(<<"s_monitor", "s_closed">>)
                  /\ UNCHANGED sexit
  /\ UNCHANGED <<libVars, coord, hookCalls, cfg, cpc, cmsg, msgType, wire, cread, sread, cexit, identity,
                 towerB, remainingRetries, gossipCheck, chist>>

\* Server.Start: Accept fails with "quic: server closed" (or ctx is done),
\* Start returns nil, makeActive returns nil and the process exits 0
ServerStartReturn ==
  /\ sexit = "running"
  /\ listener = "closed"
  /\ sexit' = "exit0"
  /\ shist' = SLog(<<"s_exit0">>)
  /\ UNCHANGED <<libVars, coord, hookCalls, cfg, cpc, spc, cmsg, smsg, msgType, wire, cread, sread, cexit,
                 identity, towerB, listener, ctxCancelled, remainingRetries,
                 gossipCheck, chist>>

(* ------------------------- Role Resolver ------------------------------ *)
\* GossipNode.Pubkey() of host h once its gossip entry has been refreshed
GossipNodePubkey(h) == PubOf(h, identity[h])

\* Validator.IsActive / Validator.IsPassive
IsActive(h) == GossipNodePubkey(h) = PubKey(IdentitiesOf(h).Active)
IsPassive(h) == GossipNodePubkey(h) = PubKey(IdentitiesOf(h).Passive)

\* variant: the file is removed whatever auto_empty_when_passive says
TowerPolicyAlwaysDeletes(autoDelete, tower, removeOk) ==
  IF tower.exists
  THEN IF removeOk THEN [err |-> "", tower |-> [exists |-> FALSE, size |-> 0]]
       ELSE [err |-> "remove_failed", tower |-> tower]
  ELSE [err |-> "", tower |-> tower]

\* makeActive's tower-file policy: RemoveFile when the file exists and
\* TowerFileAutoDeleteWhenPassive is set, then an error when the file exists
\* and the flag is not set
TowerPolicy(autoDelete, tower, removeOk) ==
  IF autoDelete /\ tower.exists
  THEN IF removeOk THEN [err |-> "", tower |-> [exists |-> FALSE, size |-> 0]]
       ELSE [err |-> "remove_failed", tower |-> tower]
  ELSE IF ~autoDelete /\ tower.exists
  THEN [err |-> "tower_file_exists", tower |-> tower]
  ELSE [err |-> "", tower |-> tower]

\* the tower file of the passive host as utils.FileExists and utils.FileSize
\* report it to the Validator of the next run
TowerFileOf(file) == [exists |-> file.exists, size |-> Len(file.bytes)]

\* variant: makeActive goes straight to the server
makeActiveTowerNotChecked(v, removeOk, configOk, listenOk) ==
  IF ~configOk
  THEN [v EXCEPT !.pc = "error", !.err = "new server",
                 !.log = v.log \o <<"returned_error">>]
  ELSE IF ~listenOk
  THEN [v EXCEPT !.pc = "returned_nil", !.log = v.log \o <<"listen_failed">>]
  ELSE [v EXCEPT !.pc = "listening", !.listenerBound = TRUE,
                 !.log = v.log \o <<"listening">>]

\* makeActive from its tower-file policy on, as one call: the policy, then
\* NewServerFromConfig and Server.Start, which binds the listener
makeActiveFrom(v, removeOk, configOk, listenOk) ==
  LET r == TowerPolicy(v.TowerFileAutoDeleteWhenPassive, v.tower, removeOk)
      w == [v EXCEPT !.tower = r.tower, !.log = v.log \o <<"tower_policy">>]
  IN IF r.err # ""
     THEN [w EXCEPT !.pc = "error", !.err = r.err,
                    !.log = w.log \o <<"tower_policy_error",
                                       "returned_error">>]
     ELSE IF ~configOk
     THEN [w EXCEPT !.pc = "error", !.err = "new server",
                    !.log = w.log \o <<"returned_error">>]
     ELSE IF ~listenOk
     THEN [w EXCEPT !.pc = "returned_nil",
                    !.log = w.log \o <<"listen_failed">>]
     ELSE [w EXCEPT !.pc = "listening", !.listenerBound = TRUE,
                    !.log = w.log \o <<"listening">>]

\* the next run of the program on the passive host, once both processes of
\* this run are gone: Failover sends a host that gossip shows as passive to
\* makeActive, which reads validator.tower.auto_empty_when_passive and looks
\* at the tower file the earlier run left; towerB stays the file as that run
\* left it, coord.tower is the file as the next run leaves it
NextRunMakeActive ==
  /\ cexit # "running" /\ sexit # "running" /\ coord.pc = "new"
  /\ IsPassive("B")
  /\ \E autoDelete \in BOOLEAN : \E removeOk \in BOOLEAN :
     \E configOk \in BOOLEAN : \E listenOk \in BOOLEAN :
       LET v == [coord EXCEPT !.TowerFileAutoDeleteWhenPassive = autoDelete,
                              !.towerAtStart = TowerFileOf(towerB),
                              !.tower = TowerFileOf(towerB),
                              !.log = <<"makeActive">>]
       IN coord' = makeActiveFrom(v, removeOk, configOk, listenOk)
  /\ UNCHANGED <<streamVars, libVars>>

Next ==
  \/ ClientInitiate
  \/ ClientAwaitAdmission
  \/ ClientLeaderGate
  \/ ClientPreHooks
  \/ ClientSlotAlign
  \/ ClientSetIdentity
  \/ ClientSendTower
  \/ ClientAwaitCompletion
  \/ ClientPostHooks
  \/ ServerDecodeInit
  \/ ServerPeerValidation
  \/ ServerConfirm
  \/ ServerPreflightSample
  \/ ServerTowerOpen
  \/ ServerPreHooksAdmit
  \/ ServerDecodeTower
  \/ ServerWriteTower
  \/ ServerSetIdentity
  \/ ServerComplete
  \/ ServerPostHooks
  \/ ServerGossipAttempt
  \/ ServerMonitorAndClose
  \/ ServerStartReturn

Spec == Init /\ [][Next]_vars

\* the server's Decode does not wait for ever on a stream whose client is
\* gone: the connection is closed by the client's return, or lost and given
\* up after MaxIdleTimeout
LiveSpec == Spec /\ WF_vars(ServerDecodeTower)

TypeOK ==
  /\ cexit \in {"running", "exit0", "exit1"}
  /\ sexit \in {"running", "exit0", "exit1"}
  /\ listener \in {"open", "closed"}
  /\ cread \in 0..2 /\ sread \in 0..2

(* -------------- Validator.Failover on one host (CoordSpec) ------------ *)
\* Validator.IsActive / Validator.IsPassive on the Validator record
ValidatorIsActive(v) == v.GossipNode = v.Identities.Active
ValidatorIsPassive(v) == v.GossipNode = v.Identities.Passive

CoordLog(evs) == coord.log \o evs

\* Failover, makeActive or makePassive returns err; runCmd then calls Fatal
CoordError(text, evs) ==
  coord' = [coord EXCEPT !.pc = "error", !.err = text,
                         !.log = CoordLog(evs \o <<"returned_error">>)]

\* variant: a lookup that reports a node for every pubkey
NodeFromPubkeyAlwaysFound(cluster, pubkey, rpcOk) == FALSE

\* Client.NodeFromPubkey: the error of GetClusterNodes, or "not found" when
\* no node of the cluster advertises the pubkey; TRUE stands for an error
NodeFromPubkey(cluster, pubkey, rpcOk) == ~rpcOk \/ pubkey \notin cluster

\* variant: the size of the tower file is not looked at
TowerFileErrorSizeIgnored(tower) ==
  IF ~tower.exists THEN "tower_file_missing" ELSE ""

\* makePassive's tower-file checks: utils.FileExists, then utils.FileSize
TowerFileError(tower) ==
  IF ~tower.exists THEN "tower_file_missing"
  ELSE IF tower.size = 0 THEN "tower_file_empty"
  ELSE ""

\* variant: equal public keys are accepted
IdentitiesNewFromConfigNoCheck(active, passive) == FALSE

\* identities.NewFromConfig: the error when the two key files hold keypairs
\* with the same public key; TRUE stands for the error
IdentitiesNewFromConfig(active, passive) == active = passive

\* Validator.NewFromConfig: configureIdentities rejects equal public keys;
\* any other configure step may fail as well
ValidatorNewFromConfig ==
  /\ coord.pc = "new"
  /\ \E configureOk \in BOOLEAN :
       IF IdentitiesNewFromConfig(coord.Identities.Active,
                                  coord.Identities.Passive)
       THEN CoordError("active and passive identities must be different",
                       <<"configure_identities">>)
       ELSE IF ~configureOk
       THEN CoordError("failed to configure", <<"configure_identities">>)
       ELSE coord' = [coord EXCEPT !.pc = "failover",
                                   !.log = CoordLog(<<"configure_identities",
                                                      "configured">>)]
  /\ UNCHANGED <<streamVars, libVars>>

\* Failover: waitUntilHealthy unless --no-wait-for-healthy; one poll of
\* IsLocalNodeHealthy per step, the loop sleeps and polls again until healthy
FailoverWaitUntilHealthy ==
  /\ coord.pc = "failover"
  /\ IF coord.NoWaitForHealthy
     THEN coord' = [coord EXCEPT !.pc = "dispatch",
                                 !.log = CoordLog(<<"health_skipped">>)]
     ELSE \E healthy \in BOOLEAN : \E spinnerOk \in BOOLEAN :
            IF ~healthy THEN UNCHANGED coord
            ELSE IF ~spinnerOk
            THEN CoordError("failed to wait until healthy", <<"healthy">>)
            ELSE coord' = [coord EXCEPT !.pc = "dispatch",
                                        !.log = CoordLog(<<"healthy">>)]
  /\ UNCHANGED <<streamVars, libVars>>

\* Failover: makePassive when IsActive, makeActive otherwise
FailoverDispatch ==
  /\ coord.pc = "dispatch"
  /\ coord' = [coord EXCEPT
                 !.pc = IF ValidatorIsActive(coord) THEN "makePassive"
                        ELSE "makeActive",
                 !.log = CoordLog(IF ValidatorIsActive(coord)
                                  THEN <<"makePassive">>
                                  ELSE <<"makeActive">>)]
  /\ UNCHANGED <<streamVars, libVars>>

\* makeActive: refuse when already active, then look for the active peer
makeActiveGossipCheck ==
  /\ coord.pc = "makeActive"
  /\ \E rpcOk \in BOOLEAN :
       IF ValidatorIsActive(coord)
       THEN CoordError("already active", <<>>)
       ELSE IF NodeFromPubkey(coord.cluster, coord.Identities.Active, rpcOk)
       THEN CoordError("active peer not found in gossip", <<"gossip_check">>)
       ELSE coord' = [coord EXCEPT !.pc = "tower_policy",
                                   !.log = CoordLog(<<"gossip_check",
                                                      "active_peer_found">>)]
  /\ UNCHANGED <<streamVars, libVars>>

\* makeActive: the tower-file policy
makeActiveTowerPolicy ==
  /\ coord.pc = "tower_policy"
  /\ \E removeOk \in BOOLEAN :
       LET r == TowerPolicy(coord.TowerFileAutoDeleteWhenPassive, coord.tower,
                            removeOk)
       IN IF r.err # ""
          THEN coord' = [coord EXCEPT !.pc = "error", !.err = r.err,
                           !.tower = r.tower,
                           !.log = CoordLog(<<"tower_policy",
                                              "tower_policy_error",
                                              "returned_error">>)]
          ELSE coord' = [coord EXCEPT !.pc = "new_server",
                           !.tower = r.tower,
                           !.log = CoordLog(<<"tower_policy">>)]
  /\ UNCHANGED <<streamVars, libVars>>

\* makeActive: NewServerFromConfig, then Server.Start binds the listener;
\* the error of Start is dropped and makeActive returns nil
makeActiveStartServer ==
  /\ coord.pc = "new_server"
  /\ \E configOk \in BOOLEAN : \E listenOk \in BOOLEAN :
       IF ~configOk THEN CoordError("new server", <<>>)
       ELSE IF ~listenOk
       THEN coord' = [coord EXCEPT !.pc = "returned_nil",
                                   !.log = CoordLog(<<"listen_failed">>)]
       ELSE coord' = [coord EXCEPT !.pc = "listening",
                                   !.listenerBound = TRUE,
                                   !.log = CoordLog(<<"listening">>)]
  /\ UNCHANGED <<streamVars, libVars>>

\* makePassive: refuse when already passive, then the tower-file checks
makePassiveTowerCheck ==
  /\ coord.pc = "makePassive"
  /\ IF ValidatorIsPassive(coord)
     THEN CoordError("already passive", <<>>)
     ELSE IF TowerFileError(coord.tower) # ""
     THEN CoordError(TowerFileError(coord.tower), <<"tower_check">>)
     ELSE coord' = [coord EXCEPT !.pc = "select_peer",
                                 !.log = CoordLog(<<"tower_check">>)]
  /\ UNCHANGED <<streamVars, libVars>>

\* makePassive: selectPassivePeer, then NewClientFromConfig dials the peer
makePassiveDial ==
  /\ coord.pc = "select_peer"
  /\ \E selectOk \in BOOLEAN : \E dialOk \in BOOLEAN :
       IF ~selectOk THEN CoordError("failed to select peer", <<>>)
       ELSE IF ~dialOk
       THEN CoordError("failed to connect to peer", <<"dial">>)
       ELSE coord' = [coord EXCEPT !.pc = "dialed", !.dialed = TRUE,
                                   !.log = CoordLog(<<"dial", "dialed">>)]
  /\ UNCHANGED <<streamVars, libVars>>

CoordInit ==
  /\ coord \in Validators
  /\ cfg = [clientNotADrill |-> FALSE, serverNotADrill |-> FALSE,
            clientVersion |-> "1.2.0", serverVersion |-> "1.2.0",
            noMinTimeToLeaderSlot |-> FALSE, monitorCount |-> 0,
            clientActiveKey |-> "PubActive"]
  /\ cpc = "start"
  /\ spc = "listening"
  /\ cmsg = ZeroMessage
  /\ smsg = ZeroMessage
  /\ msgType = 0
  /\ wire = <<>>
  /\ cread = 0
  /\ sread = 0
  /\ cexit = "running"
  /\ sexit = "running"
  /\ identity = [h \in Hosts |-> IF h = "A" THEN "active" ELSE "passive"]
  /\ towerB = [exists |-> FALSE, bytes |-> <<>>]
  /\ listener = "open"
  /\ ctxCancelled = FALSE
  /\ remainingRetries = LeaderMaxRetries
  /\ gossipCheck = [retryCount |-> 0, active |-> FALSE, passive |-> FALSE]
  /\ chist = <<>>
  /\ shist = <<>>
  /\ hookCalls = [c |-> <<>>, s |-> <<>>]
  /\ hookRun = IdleHookRun
  /\ ranking = IdleRanking
  /\ handlers = IdleHandlers
  /\ slotCache = IdleSlotCache
  /\ hookProc = IdleHookProc
  /\ leaderSlot = IdleLeaderSlot
  /\ gossipLoop = IdleGossipLoop

CoordNext ==
  \/ ValidatorNewFromConfig
  \/ FailoverWaitUntilHealthy
  \/ FailoverDispatch
  \/ makeActiveGossipCheck
  \/ makeActiveTowerPolicy
  \/ makeActiveStartServer
  \/ makePassiveTowerCheck
  \/ makePassiveDial

CoordSpec == CoordInit /\ [][CoordNext]_vars

(* --------- one hook sequence of FailoverHooks (HookSpec) -------------- *)
\* strings are sequences of bytes here, so that their order and their
\* white space are what the library functions see
IsSpace(c) == c \in {9, 10, 11, 12, 13, 32}

RECURSIVE TrimLeft(_)
TrimLeft(v) ==
  IF v # <<>> /\ IsSpace(Head(v)) THEN TrimLeft(Tail(v)) ELSE v

RECURSIVE TrimRight(_)
TrimRight(v) ==
  IF v # <<>> /\ IsSpace(v[Len(v)])
  THEN TrimRight(SubSeq(v, 1, Len(v) - 1)) ELSE v

\* strings.TrimSpace
TrimSpace(v) == TrimRight(TrimLeft(v))

\* the order of Go strings: byte-wise lexicographic
RECURSIVE StringLess(_, _)
StringLess(a, b) ==
  IF a = <<>> THEN b # <<>>
  ELSE IF b = <<>> THEN FALSE
  ELSE IF Head(a) # Head(b) THEN Head(a) < Head(b)
  ELSE StringLess(Tail(a), Tail(b))

\* slices.Sort on the keys of a map
RECURSIVE SortKeys(_)
SortKeys(keys) ==
  IF keys = {} THEN <<>>
  ELSE LET least == CHOOSE k \in keys :
                      \A x \in keys \ {k} : StringLess(k, x)
       IN <<least>> \o SortKeys(keys \ {least})

\* utils.SortStringMap: the keys are sorted and then inserted, in that
\* order, into a new map, which is returned
SortStringMap(m) ==
  LET keys == SortKeys(DOMAIN m)
  IN [k \in {keys[i] : i \in DOMAIN keys} |-> m[k]]

\* the orders in which a range statement may visit the keys of a map: the
\* language leaves the order unspecified
MapRangeOrders(m) ==
  {o \in [1..Cardinality(DOMAIN m) -> DOMAIN m] :
     \A i \in DOMAIN o : \A j \in DOMAIN o : o[i] = o[j] => i = j}

\* cmd.Env as Hook.Run builds it when the range statement over
\* SortStringMap(envMap) visits the keys in the given order
HookCmdEnv(envMap, order) ==
  [i \in DOMAIN order |->
     [prefix |-> "SOLANA_VALIDATOR_FAILOVER_", key |-> order[i],
      value |-> TrimSpace(SortStringMap(envMap)[order[i]])]]

\* the keys and values of the env maps tried
EnvKeys == {<<97>>, <<97, 98>>, <<98>>}
EnvValues == {<<118>>, <<32, 118, 10>>, <<118, 32, 119>>}
EnvMaps ==
  UNION {[keys -> EnvValues] :
           keys \in {s \in SUBSET EnvKeys : Cardinality(s) <= MaxEnvKeys}}

HookSequences ==
  {"Pre.WhenPassive", "Pre.WhenActive", "Post.WhenPassive", "Post.WhenActive"}

\* hook lists of up to MaxSequenceLen hooks
SequenceLists ==
  UNION {[1..n -> [MustSucceed : BOOLEAN]] : n \in 0..MaxSequenceLen}

\* variant: a failing must_succeed hook ends a post-hook sequence as well
HookFailureReturnedAnySequence(sequence, hook, failed) ==
  failed /\ hook.MustSucceed

\* the loop bodies of RunPreWhenPassive and RunPreWhenActive return the
\* error of a hook that failed with MustSucceed set; those of
\* RunPostWhenPassive and RunPostWhenActive return nothing
HookFailureReturned(sequence, hook, failed) ==
  failed /\ hook.MustSucceed
    /\ sequence \in {"Pre.WhenPassive", "Pre.WhenActive"}

\* a hook sequence about to be run: ok[i] tells whether the process of
\* hook i ends without error
HookRunOf(sequence, hooks, ok, envMap) ==
  [pc |-> "loop", sequence |-> sequence, hooks |-> hooks, ok |-> ok,
   envMap |-> envMap, i |-> 1, started |-> <<>>, cmdEnv |-> <<>>,
   logged |-> <<>>, err |-> 0]

\* one iteration of the loop over the hooks: Hook.Run builds cmd.Env, starts
\* the process and waits for it; the loop then returns the error, or logs
\* it and goes on
HookRunStep ==
  /\ hookRun.pc = "loop"
  /\ hookRun.i <= Len(hookRun.hooks)
  /\ \E order \in MapRangeOrders(SortStringMap(hookRun.envMap)) :
       LET i == hookRun.i
           failed == ~hookRun.ok[i]
           run == [hookRun EXCEPT
                     !.started = Append(@, i),
                     !.cmdEnv = HookCmdEnv(hookRun.envMap, order)]
       IN IF HookFailureReturned(hookRun.sequence, hookRun.hooks[i], failed)
          THEN hookRun' = [run EXCEPT !.pc = "returned", !.err = i]
          ELSE hookRun' = [run EXCEPT
                             !.i = i + 1,
                             !.logged = IF failed THEN Append(@, i) ELSE @]
  /\ UNCHANGED <<streamVars, coord, ranking, taskVars>>

\* the loop is over: the pre-hook functions return nil, the post-hook
\* functions return
HookRunReturn ==
  /\ hookRun.pc = "loop"
  /\ hookRun.i > Len(hookRun.hooks)
  /\ hookRun' = [hookRun EXCEPT !.pc = "returned"]
  /\ UNCHANGED <<streamVars, coord, ranking, taskVars>>

\* every sequence with one env map, and every env map with the sequences of
\* one hook
HookRuns ==
  {HookRunOf(q, h, ok, [k \in {<<97>>} |-> <<118>>]) :
     q \in HookSequences,
     h \in SequenceLists, ok \in UNION {[1..n -> BOOLEAN] : n \in 0..MaxSequenceLen}}
  \cup
  {HookRunOf("Pre.WhenActive", h, ok, e) :
     h \in [1..1 -> [MustSucceed : BOOLEAN]], ok \in [1..1 -> BOOLEAN],
     e \in EnvMaps}

HookInit ==
  /\ hookRun \in {r \in HookRuns : Len(r.ok) = Len(r.hooks)}
  /\ ranking = IdleRanking
  /\ coord = ValidatorOf("PubPassive", {"PubActive"}, FALSE, FALSE,
                         [exists |-> FALSE, size |-> 0])
  /\ cfg = [clientNotADrill |-> FALSE, serverNotADrill |-> FALSE,
            clientVersion |-> "1.2.0", serverVersion |-> "1.2.0",
            noMinTimeToLeaderSlot |-> FALSE, monitorCount |-> 0,
            clientActiveKey |-> "PubActive"]
  /\ cpc = "start"
  /\ spc = "listening"
  /\ cmsg = ZeroMessage
  /\ smsg = ZeroMessage
  /\ msgType = 0
  /\ wire = <<>>
  /\ cread = 0
  /\ sread = 0
  /\ cexit = "running"
  /\ sexit = "running"
  /\ identity = [h \in Hosts |-> IF h = "A" THEN "active" ELSE "passive"]
  /\ towerB = [exists |-> FALSE, bytes |-> <<>>]
  /\ listener = "open"
  /\ ctxCancelled = FALSE
  /\ remainingRetries = LeaderMaxRetries
  /\ gossipCheck = [retryCount |-> 0, active |-> FALSE, passive |-> FALSE]
  /\ chist = <<>>
  /\ shist = <<>>
  /\ hookCalls = [c |-> <<>>, s |-> <<>>]
  /\ handlers = IdleHandlers
  /\ slotCache = IdleSlotCache
  /\ hookProc = IdleHookProc
  /\ leaderSlot = IdleLeaderSlot
  /\ gossipLoop = IdleGossipLoop

HookNext ==
  \/ HookRunStep
  \/ HookRunReturn

HookSpec == HookInit /\ [][HookNext]_vars

(* ---- Client.GetCreditRankedVoteAccountFromPubkey (RankSpec) ----------- *)
\* rpc.VoteAccountsResult: the node pubkey and the epoch credits, a list of
\* <<epoch, credits, previous credits>>
VoteAccount(nodePubkey, epochCredits) ==
  [NodePubkey |-> nodePubkey, EpochCredits |-> epochCredits]

\* the nil *rpc.VoteAccountsResult
NilVoteAccount == VoteAccount("", <<>>)

\* the difference the comparison function computes for an account from the
\* last entry of its EpochCredits, 0 when there is no entry
CreditDiff(account) ==
  IF Len(account.EpochCredits) > 0
  THEN LET last == account.EpochCredits[Len(account.EpochCredits)]
       IN last[2] - last[3]
  ELSE 0

\* variant: the comparison sorts by ascending difference
CreditLessAscending(a, b) == CreditDiff(a) < CreditDiff(b)

\* the less function given to sort.SliceStable: iDiff > jDiff
CreditLess(a, b) == CreditDiff(a) > CreditDiff(b)

\* a stable sort inserts x behind every element that is not after it
RECURSIVE InsertStable(_, _)
InsertStable(sorted, x) ==
  IF sorted = <<>> THEN <<x>>
  ELSE IF CreditLess(x, Head(sorted)) THEN <<x>> \o sorted
  ELSE <<Head(sorted)>> \o InsertStable(Tail(sorted), x)

\* sort.SliceStable(currentVoteAccounts, less)
RECURSIVE SliceStable(_)
SliceStable(accounts) ==
  IF accounts = <<>> THEN <<>>
  ELSE InsertStable(SliceStable(SubSeq(accounts, 1, Len(accounts) - 1)),
                    accounts[Len(accounts)])

\* the loop over the sorted accounts: the first one whose NodePubkey is the
\* pubkey asked for, with its 1-indexed position; index 0 when there is none
RECURSIVE FirstWithPubkey(_, _, _)
FirstWithPubkey(sorted, pubkey, i) ==
  IF i > Len(sorted) THEN 0
  ELSE IF sorted[i].NodePubkey = pubkey THEN i
  ELSE FirstWithPubkey(sorted, pubkey, i + 1)

\* GetCreditRankedVoteAccountFromPubkey on the accounts GetVoteAccounts
\* returns as current; rpcOk = FALSE stands for an error of GetVoteAccounts
GetCreditRankedVoteAccountFromPubkey(current, pubkey, rpcOk) ==
  IF ~rpcOk
  THEN [voteAccount |-> NilVoteAccount, creditRank |-> 0, err |-> "rpc"]
  ELSE LET sorted == SliceStable(current)
           i == FirstWithPubkey(sorted, pubkey, 1)
       IN IF i = 0
          THEN [voteAccount |-> NilVoteAccount, creditRank |-> 0,
                err |-> "not found"]
          ELSE [voteAccount |-> sorted[i], creditRank |-> i, err |-> ""]

\* the vote accounts tried: two validators, credit differences 0 (no entry,
\* or a last entry with equal credits), 2 and -2
EpochCreditsTried ==
  {<<>>, << <<1, 5, 3>> >>, << <<1, 3, 5>> >>, << <<1, 5, 3>>, <<2, 4, 4>> >>}
VoteAccountsTried ==
  {VoteAccount(p, e) : p \in {"V1", "V2"}, e \in EpochCreditsTried}
CurrentTried ==
  UNION {[1..n -> VoteAccountsTried] : n \in 0..MaxVoteAccounts}

RankingOf(current, pubkey) ==
  [pc |-> "call", current |-> current, pubkey |-> pubkey,
   result |-> [voteAccount |-> NilVoteAccount, creditRank |-> 0, err |-> ""]]

RankingCall ==
  /\ ranking.pc = "call"
  /\ \E rpcOk \in BOOLEAN :
       ranking' = [ranking EXCEPT
                     !.pc = "returned",
                     !.result = GetCreditRankedVoteAccountFromPubkey(
                                  ranking.current, ranking.pubkey, rpcOk)]
  /\ UNCHANGED <<streamVars, coord, hookRun, taskVars>>

RankInit ==
  /\ ranking \in {RankingOf(c, p) : c \in CurrentTried, p \in {"V1", "V3"}}
  /\ hookRun = IdleHookRun
  /\ coord = ValidatorOf("PubPassive", {"PubActive"}, FALSE, FALSE,
                         [exists |-> FALSE, size |-> 0])
  /\ cfg = [clientNotADrill |-> FALSE, serverNotADrill |-> FALSE,
            clientVersion |-> "1.2.0", serverVersion |-> "1.2.0",
            noMinTimeToLeaderSlot |-> FALSE, monitorCount |-> 0,
            clientActiveKey |-> "PubActive"]
  /\ cpc = "start"
  /\ spc = "listening"
  /\ cmsg = ZeroMessage
  /\ smsg = ZeroMessage
  /\ msgType = 0
  /\ wire = <<>>
  /\ cread = 0
  /\ sread = 0
  /\ cexit = "running"
  /\ sexit = "running"
  /\ identity = [h \in Hosts |-> IF h = "A" THEN "active" ELSE "passive"]
  /\ towerB = [exists |-> FALSE, bytes |-> <<>>]
  /\ listener = "open"
  /\ ctxCancelled = FALSE
  /\ remainingRetries = LeaderMaxRetries
  /\ gossipCheck = [retryCount |-> 0, active |-> FALSE, passive |-> FALSE]
  /\ chist = <<>>
  /\ shist = <<>>
  /\ hookCalls = [c |-> <<>>, s |-> <<>>]
  /\ handlers = IdleHandlers
  /\ slotCache = IdleSlotCache
  /\ hookProc = IdleHookProc
  /\ leaderSlot = IdleLeaderSlot
  /\ gossipLoop = IdleGossipLoop

RankNext == RankingCall

RankSpec == RankInit /\ [][RankNext]_vars

(* ---- two streams handled by one Server at the same time (HandlerSpec) - *)
\* every variable of the handlers of one stream, of the coordinator and of
\* the functions run on their own, at rest
StreamAtRest ==
  /\ coord = ValidatorOf("PubPassive", {"PubActive"}, FALSE, FALSE,
                         [exists |-> FALSE, size |-> 0])
  /\ cfg = [clientNotADrill |-> FALSE, serverNotADrill |-> FALSE,
            clientVersion |-> "1.2.0", serverVersion |-> "1.2.0",
            noMinTimeToLeaderSlot |-> FALSE, monitorCount |-> 0,
            clientActiveKey |-> "PubActive"]
  /\ cpc = "start"
  /\ spc = "listening"
  /\ cmsg = ZeroMessage
  /\ smsg = ZeroMessage
  /\ msgType = 0
  /\ wire = <<>>
  /\ cread = 0
  /\ sread = 0
  /\ cexit = "running"
  /\ sexit = "running"
  /\ identity = [h \in Hosts |-> IF h = "A" THEN "active" ELSE "passive"]
  /\ towerB = [exists |-> FALSE, bytes |-> <<>>]
  /\ listener = "open"
  /\ ctxCancelled = FALSE
  /\ remainingRetries = LeaderMaxRetries
  /\ gossipCheck = [retryCount |-> 0, active |-> FALSE, passive |-> FALSE]
  /\ chist = <<>>
  /\ shist = <<>>
  /\ hookCalls = [c |-> <<>>, s |-> <<>>]

\* the streams the accept loop has handed to a goroutine each
AcceptedStreams == {1, 2}

\* NewFailoverStream(stream): a Stream object on the quic stream i; its
\* message is fresh, received counts the client messages read from the quic
\* stream, sent holds the messages written to it
StreamObject(i) ==
  [message |-> [ActivePubkey |-> "", PassiveNodeInfoSet |-> FALSE],
   received |-> 0, sent |-> <<>>]

\* a Server whose accept loop has accepted two connections, each carrying
\* the initiate request of the client whose active pubkey is request[i]
HandlersOf(request) ==
  [pc |-> "serving",
   failoverStream |-> 0,
   activeConn |-> 0,
   request |-> request,
   stream |-> [i \in AcceptedStreams |-> StreamObject(i)],
   task |-> [i \in AcceptedStreams |-> [pc |-> "connection", used |-> {}]]]

\* the Stream a handler reaches through the field s.failoverStream; the
\* field is read again at every call
FieldFailoverStream == handlers.failoverStream

\* handleConnection of goroutine t: s.activeConn = conn, AcceptStream,
\* go handleStream, which reads the type byte
HandleConnection(t) ==
  /\ handlers.pc = "serving"
  /\ handlers.task[t].pc = "connection"
  /\ handlers' = [handlers EXCEPT !.activeConn = t,
                                  !.task[t].pc = "new"]
  /\ UNCHANGED <<streamVars, coord, hookRun, ranking, slotCache, hookProc,
                 leaderSlot, gossipLoop>>

\* handleFailoverStream of goroutine t: s.failoverStream =
\* NewFailoverStream(stream)
HandlerNewFailoverStream(t) ==
  /\ handlers.pc = "serving"
  /\ handlers.task[t].pc = "new"
  /\ handlers' = [handlers EXCEPT !.failoverStream = t,
                                  !.task[t].pc = "decode"]
  /\ UNCHANGED <<streamVars, coord, hookRun, ranking, slotCache, hookProc,
                 leaderSlot, gossipLoop>>

\* s.failoverStream.Decode(): the message of the Stream the field points to
\* is read from that Stream's quic stream; when the request of that stream
\* has been consumed already the read ends with an error (the idle timeout)
\* and the handler returns
HandlerDecode(t) ==
  /\ handlers.pc = "serving"
  /\ handlers.task[t].pc = "decode"
  /\ LET o == FieldFailoverStream
     IN IF handlers.stream[o].received = 0
        THEN handlers' =
               [handlers EXCEPT
                  !.stream[o].message.ActivePubkey = handlers.request[o],
                  !.stream[o].received = 1,
                  !.task[t].used = @ \cup {o},
                  !.task[t].pc = "set"]
        ELSE handlers' =
               [handlers EXCEPT !.task[t].used = @ \cup {o},
                                !.task[t].pc = "returned"]
  /\ UNCHANGED <<streamVars, coord, hookRun, ranking, slotCache, hookProc,
                 leaderSlot, gossipLoop>>

\* s.failoverStream.SetMonitorConfig, SetIsDryRunFailover, SetPassiveNodeInfo
HandlerSetPassiveNodeInfo(t) ==
  /\ handlers.pc = "serving"
  /\ handlers.task[t].pc = "set"
  /\ LET o == FieldFailoverStream
     IN handlers' =
          [handlers EXCEPT !.stream[o].message.PassiveNodeInfoSet = TRUE,
                           !.task[t].used = @ \cup {o},
                           !.task[t].pc = "encode"]
  /\ UNCHANGED <<streamVars, coord, hookRun, ranking, slotCache, hookProc,
                 leaderSlot, gossipLoop>>

\* s.failoverStream.Encode(): the first reply of the handler
HandlerEncode(t) ==
  /\ handlers.pc = "serving"
  /\ handlers.task[t].pc = "encode"
  /\ LET o == FieldFailoverStream
     IN handlers' =
          [handlers EXCEPT
             !.stream[o].sent =
                Append(@, [by |-> t, msg |-> handlers.stream[o].message]),
             !.task[t].used = @ \cup {o},
             !.task[t].pc = "replied"]
  /\ UNCHANGED <<streamVars, coord, hookRun, ranking, slotCache, hookProc,
                 leaderSlot, gossipLoop>>

HandlerInit ==
  /\ StreamAtRest
  /\ hookRun = IdleHookRun
  /\ ranking = IdleRanking
  /\ slotCache = IdleSlotCache
  /\ hookProc = IdleHookProc
  /\ leaderSlot = IdleLeaderSlot
  /\ gossipLoop = IdleGossipLoop
  /\ handlers \in {HandlersOf(r) :
                     r \in [AcceptedStreams -> {"PubActive", "PubPassiveB"}]}

HandlerNext ==
  \E t \in AcceptedStreams :
     \/ HandleConnection(t)
     \/ HandlerNewFailoverStream(t)
     \/ HandlerDecode(t)
     \/ HandlerSetPassiveNodeInfo(t)
     \/ HandlerEncode(t)

HandlerSpec == HandlerInit /\ [][HandlerNext]_vars

(* ---- Client.getAverageSlotTime and its cache (SlotCacheSpec) --------- *)
\* the goroutines calling getAverageSlotTime
Callers == 1..MaxCallers

\* results of GetRecentPerformanceSamples the model tries: an error, or the
\* first sample with its SamplePeriodSecs and NumSlots (the copy of the
\* function that asks no RPC always stores the 400 ms every failing attempt
\* leads to here)
PerformanceSamples ==
  {[err |-> TRUE, SamplePeriodSecs |-> 0, NumSlots |-> 0],
   [err |-> FALSE, SamplePeriodSecs |-> 60, NumSlots |-> 0],
   [err |-> FALSE, SamplePeriodSecs |-> 60, NumSlots |-> 150],
   [err |-> FALSE, SamplePeriodSecs |-> 60, NumSlots |-> 120]}

RECURSIVE FetchAverageSlotTime(_, _)
\* the slot time, in ms, the retry loop of getAverageSlotTime ends with:
\* that of the first usable sample among its three attempts, 400 otherwise
FetchAverageSlotTime(attempts, i) ==
  IF i > SlotTimeMaxRetries THEN FallbackSlotTime
  ELSE IF ~attempts[i].err /\ attempts[i].NumSlots > 0
       THEN (attempts[i].SamplePeriodSecs * 1000) \div attempts[i].NumSlots
       ELSE FetchAverageSlotTime(attempts, i + 1)

\* variant: the cache is never fresh for the caller that holds the write lock
IsFreshNotRechecked(lastUpdated, now, locked) ==
  ~locked /\ now - lastUpdated < CacheWindow

\* time.Since(c.performanceCache.lastUpdated) < 30*time.Second, asked with or
\* without the write lock held
IsFresh(lastUpdated, now, locked) == now - lastUpdated < CacheWindow

\* a Client whose cache was never written (lastUpdated is the zero time, a
\* window or more in the past), the RWMutex free, every caller about to call
SlotCacheStart ==
  [pc |-> "running",
   avgSlotTime |-> 0,
   lastUpdated |-> -CacheWindow,
   now |-> 0,
   readers |-> {},
   writer |-> 0,
   midWrite |-> FALSE,
   refreshes |-> <<>>,
   caller |-> [c \in Callers |->
                 [pc |-> "RLock", fetched |-> 0, result |-> 0,
                  refreshed |-> FALSE, after |-> 0]]]

\* the clock moves on by one unit (a window is CacheWindow units)
SlotCacheTick ==
  /\ slotCache.pc = "running"
  /\ slotCache.now < MaxNow
  /\ slotCache' = [slotCache EXCEPT !.now = @ + 1]
  /\ UNCHANGED <<streamVars, coord, hookRun, ranking, handlers, hookProc,
                 leaderSlot, gossipLoop>>

\* c.performanceCache.mutex.RLock()
CallerRLock(c) ==
  /\ slotCache.pc = "running"
  /\ slotCache.caller[c].pc = "RLock"
  /\ slotCache.writer = 0
  /\ slotCache' = [slotCache EXCEPT !.readers = @ \cup {c},
                                    !.caller[c].pc = "check"]
  /\ UNCHANGED <<streamVars, coord, hookRun, ranking, handlers, hookProc,
                 leaderSlot, gossipLoop>>

\* the first check, the read of the cached value, RUnlock
CallerCheck(c) ==
  /\ slotCache.pc = "running"
  /\ slotCache.caller[c].pc = "check"
  /\ IF IsFresh(slotCache.lastUpdated, slotCache.now, FALSE)
     THEN slotCache' = [slotCache EXCEPT
                          !.readers = @ \ {c},
                          !.caller[c].result = slotCache.avgSlotTime,
                          !.caller[c].after = Len(slotCache.refreshes),
                          !.caller[c].pc = "returned"]
     ELSE slotCache' = [slotCache EXCEPT !.readers = @ \ {c},
                                         !.caller[c].pc = "Lock"]
  /\ UNCHANGED <<streamVars, coord, hookRun, ranking, handlers, hookProc,
                 leaderSlot, gossipLoop>>

\* c.performanceCache.mutex.Lock()
CallerLock(c) ==
  /\ slotCache.pc = "running"
  /\ slotCache.caller[c].pc = "Lock"
  /\ slotCache.writer = 0 /\ slotCache.readers = {}
  /\ slotCache' = [slotCache EXCEPT !.writer = c,
                                    !.caller[c].pc = "recheck"]
  /\ UNCHANGED <<streamVars, coord, hookRun, ranking, handlers, hookProc,
                 leaderSlot, gossipLoop>>

\* the second check under the write lock; a fresh cache is returned and the
\* deferred Unlock runs
CallerRecheck(c) ==
  /\ slotCache.pc = "running"
  /\ slotCache.caller[c].pc = "recheck"
  /\ IF IsFresh(slotCache.lastUpdated, slotCache.now, TRUE)
     THEN slotCache' = [slotCache EXCEPT
                          !.writer = 0,
                          !.caller[c].result = slotCache.avgSlotTime,
                          !.caller[c].after = Len(slotCache.refreshes),
                          !.caller[c].pc = "returned"]
     ELSE slotCache' = [slotCache EXCEPT !.caller[c].pc = "fetch"]
  /\ UNCHANGED <<streamVars, coord, hookRun, ranking, handlers, hookProc,
                 leaderSlot, gossipLoop>>

\* the retry loop over GetRecentPerformanceSamples, with the lock held
CallerFetch(c) ==
  /\ slotCache.pc = "running"
  /\ slotCache.caller[c].pc = "fetch"
  /\ \E attempts \in [1..SlotTimeMaxRetries -> PerformanceSamples] :
       slotCache' = [slotCache EXCEPT
                       !.caller[c].fetched = FetchAverageSlotTime(attempts, 1),
                       !.caller[c].pc = "store"]
  /\ UNCHANGED <<streamVars, coord, hookRun, ranking, handlers, hookProc,
                 leaderSlot, gossipLoop>>

\* c.performanceCache.avgSlotTime = avgSlotTime
CallerStoreAvgSlotTime(c) ==
  /\ slotCache.pc = "running"
  /\ slotCache.caller[c].pc = "store"
  /\ slotCache' = [slotCache EXCEPT
                     !.avgSlotTime = slotCache.caller[c].fetched,
                     !.midWrite = TRUE,
                     !.caller[c].pc = "stamp"]
  /\ UNCHANGED <<streamVars, coord, hookRun, ranking, handlers, hookProc,
                 leaderSlot, gossipLoop>>

\* c.performanceCache.lastUpdated = time.Now(), return, the deferred Unlock
CallerStoreLastUpdated(c) ==
  /\ slotCache.pc = "running"
  /\ slotCache.caller[c].pc = "stamp"
  /\ slotCache' = [slotCache EXCEPT
                     !.lastUpdated = slotCache.now,
                     !.midWrite = FALSE,
                     !.writer = 0,
                     !.refreshes =
                        Append(@, [by |-> c, at |-> slotCache.now,
                                   value |-> slotCache.avgSlotTime]),
                     !.caller[c].result = slotCache.caller[c].fetched,
                     !.caller[c].refreshed = TRUE,
                     !.caller[c].after = Len(slotCache.refreshes) + 1,
                     !.caller[c].pc = "returned"]
  /\ UNCHANGED <<streamVars, coord, hookRun, ranking, handlers, hookProc,
                 leaderSlot, gossipLoop>>

\* the goroutine calls getAverageSlotTime again
CallerCallsAgain(c) ==
  /\ slotCache.pc = "running"
  /\ slotCache.caller[c].pc = "returned"
  /\ slotCache' = [slotCache EXCEPT
                     !.caller[c] = [pc |-> "RLock", fetched |-> 0,
                                    result |-> 0, refreshed |-> FALSE,
                                    after |-> 0]]
  /\ UNCHANGED <<streamVars, coord, hookRun, ranking, handlers, hookProc,
                 leaderSlot, gossipLoop>>

SlotCacheInit ==
  /\ StreamAtRest
  /\ hookRun = IdleHookRun
  /\ ranking = IdleRanking
  /\ handlers = IdleHandlers
  /\ hookProc = IdleHookProc
  /\ leaderSlot = IdleLeaderSlot
  /\ gossipLoop = IdleGossipLoop
  /\ slotCache = SlotCacheStart

SlotCacheNext ==
  \/ SlotCacheTick
  \/ \E c \in Callers :
       \/ CallerRLock(c)
       \/ CallerCheck(c)
       \/ CallerLock(c)
       \/ CallerRecheck(c)
       \/ CallerFetch(c)
       \/ CallerStoreAvgSlotTime(c)
       \/ CallerStoreLastUpdated(c)
       \/ CallerCallsAgain(c)

SlotCacheSpec == SlotCacheInit /\ [][SlotCacheNext]_vars

(* ---- Hook.Run: the child and its output streams (HookProcSpec) ------- *)
\* the two pipes of the child
HookStreams == {"stdout", "stderr"}

\* what a hook command may write to one stream: lines as byte strings,
\* among them a blank one and one with surrounding spaces
HookOutputs ==
  {<<>>, <<<<111>>>>, <<<<32>>, <<32, 111, 107>>>>}

\* Hook.Run after cmd.Start and wg.Add(2): the child is running and will
\* write script[s] to stream s, both streamOutput goroutines are scanning
HookProcOf(script) ==
  [pc |-> "cmd.Wait",
   script |-> script,
   written |-> [s \in HookStreams |-> 0],
   exited |-> FALSE,
   pipe |-> [s \in HookStreams |-> [buffer |-> <<>>, closed |-> FALSE]],
   reader |-> [s \in HookStreams |-> "scanning"],
   wg |-> 2,
   log |-> <<>>,
   readErr |-> {}]

\* the child writes its next line to stream s
ChildWrites(s) ==
  /\ hookProc.pc # "idle"
  /\ ~hookProc.exited
  /\ hookProc.written[s] < Len(hookProc.script[s])
  /\ hookProc' = [hookProc EXCEPT
                    !.written[s] = @ + 1,
                    !.pipe[s].buffer =
                       Append(@, hookProc.script[s][hookProc.written[s] + 1])]
  /\ UNCHANGED <<streamVars, coord, hookRun, ranking, handlers, slotCache,
                 leaderSlot, gossipLoop>>

\* the child exits, having written all it had to write
ChildExits ==
  /\ hookProc.pc # "idle"
  /\ ~hookProc.exited
  /\ \A s \in HookStreams : hookProc.written[s] = Len(hookProc.script[s])
  /\ hookProc' = [hookProc EXCEPT !.exited = TRUE]
  /\ UNCHANGED <<streamVars, coord, hookRun, ranking, handlers, slotCache,
                 leaderSlot, gossipLoop>>

\* streamOutput: scanner.Scan returns a line, which is trimmed and logged
\* when it is not blank
StreamOutputScan(s) ==
  /\ hookProc.pc # "idle"
  /\ hookProc.reader[s] = "scanning"
  /\ ~hookProc.pipe[s].closed
  /\ hookProc.pipe[s].buffer # <<>>
  /\ LET line == TrimSpace(Head(hookProc.pipe[s].buffer))
     IN hookProc' = [hookProc EXCEPT
                       !.pipe[s].buffer = Tail(@),
                       !.log = IF line # <<>>
                               THEN Append(@, [stream |-> s, line |-> line])
                               ELSE @]
  /\ UNCHANGED <<streamVars, coord, hookRun, ranking, handlers, slotCache,
                 leaderSlot, gossipLoop>>

\* streamOutput: scanner.Scan returns false, at the end of the stream or
\* because the pipe was closed under the reader ("file already closed",
\* which is not logged); pipe.Close and wg.Done are deferred
StreamOutputEnds(s) ==
  /\ hookProc.pc # "idle"
  /\ hookProc.reader[s] = "scanning"
  /\ \/ hookProc.pipe[s].closed
     \/ hookProc.exited /\ hookProc.pipe[s].buffer = <<>>
  /\ hookProc' = [hookProc EXCEPT
                    !.reader[s] = "done",
                    !.readErr = IF hookProc.pipe[s].closed
                                THEN @ \cup {s} ELSE @,
                    !.pipe[s].closed = TRUE,
                    !.wg = @ - 1]
  /\ UNCHANGED <<streamVars, coord, hookRun, ranking, handlers, slotCache,
                 leaderSlot, gossipLoop>>

\* os/exec: Wait closes the read side of StdoutPipe and StderrPipe after
\* seeing the command exit
CmdWaitClosesPipes(pipe) ==
  [s \in HookStreams |-> [pipe[s] EXCEPT !.closed = TRUE]]

\* err = cmd.Wait()
HookCmdWait ==
  /\ hookProc.pc = "cmd.Wait"
  /\ hookProc.exited
  /\ hookProc' = [hookProc EXCEPT !.pc = "wg.Wait",
                                  !.pipe = CmdWaitClosesPipes(hookProc.pipe)]
  /\ UNCHANGED <<streamVars, coord, hookRun, ranking, handlers, slotCache,
                 leaderSlot, gossipLoop>>

\* wg.Wait(), then Hook.Run returns
HookWgWait ==
  /\ hookProc.pc = "wg.Wait"
  /\ hookProc.wg = 0
  /\ hookProc' = [hookProc EXCEPT !.pc = "returned"]
  /\ UNCHANGED <<streamVars, coord, hookRun, ranking, handlers, slotCache,
                 leaderSlot, gossipLoop>>

HookProcInit ==
  /\ StreamAtRest
  /\ hookRun = IdleHookRun
  /\ ranking = IdleRanking
  /\ handlers = IdleHandlers
  /\ slotCache = IdleSlotCache
  /\ leaderSlot = IdleLeaderSlot
  /\ gossipLoop = IdleGossipLoop
  /\ hookProc \in {HookProcOf(script) :
                     script \in [HookStreams -> HookOutputs]}

HookProcNext ==
  \/ \E s \in HookStreams : ChildWrites(s)
  \/ ChildExits
  \/ \E s \in HookStreams : StreamOutputScan(s)
  \/ \E s \in HookStreams : StreamOutputEnds(s)
  \/ HookCmdWait
  \/ HookWgWait

HookProcSpec == HookProcInit /\ [][HookProcNext]_vars

(* ---- Client.GetTimeToNextLeaderSlotForPubkey (LeaderSlotSpec) -------- *)
\* the answer of GetLeaderSchedule for the pubkey asked for: whether the
\* pubkey is a key of the schedule and, if so, its slots relative to the
\* first slot of the epoch, in the order the RPC gives them
LeaderSchedules ==
  {[ok |-> FALSE, relativeSlots |-> <<>>]}
  \cup {[ok |-> TRUE, relativeSlots |-> r] :
          r \in UNION {[1..n -> 0..MaxRelativeSlot] : n \in 0..2}}

\* the answers of GetEpochInfo: SlotIndex never exceeds AbsoluteSlot
EpochInfos ==
  {e \in [AbsoluteSlot : 0..MaxRelativeSlot, SlotIndex : 0..MaxRelativeSlot] :
     e.SlotIndex <= e.AbsoluteSlot}

\* variant: the slots of the schedule are taken as absolute slots
AbsoluteSlotNotConverted(firstSlotOfEpoch, relativeSlot) == relativeSlot

\* absoluteSlot := firstSlotOfEpoch + relativeSlot
AbsoluteSlot(firstSlotOfEpoch, relativeSlot) == firstSlotOfEpoch + relativeSlot

\* the loop over relativeSlots from index i: the first absolute slot greater
\* than currentSlot, 0 when there is none
RECURSIVE NextLeaderSlot(_, _, _, _)
NextLeaderSlot(relativeSlots, firstSlotOfEpoch, currentSlot, i) ==
  IF i > Len(relativeSlots) THEN 0
  ELSE IF AbsoluteSlot(firstSlotOfEpoch, relativeSlots[i]) > currentSlot
       THEN AbsoluteSlot(firstSlotOfEpoch, relativeSlots[i])
       ELSE NextLeaderSlot(relativeSlots, firstSlotOfEpoch, currentSlot, i + 1)

\* GetTimeToNextLeaderSlotForPubkey: failed names the RPC that returned an
\* error ("" for none), avgSlotTime is what getAverageSlotTime returns
GetTimeToNextLeaderSlotForPubkey(currentSlot, epochInfo, schedule, avgSlotTime, failed) ==
  LET firstSlotOfEpoch == epochInfo.AbsoluteSlot - epochInfo.SlotIndex
      nextLeaderSlot == NextLeaderSlot(schedule.relativeSlots,
                                       firstSlotOfEpoch, currentSlot, 1)
  IN IF failed # ""
     THEN [isOnLeaderSchedule |-> FALSE, timeToNextLeaderSlot |-> 0,
           err |-> failed]
     ELSE IF ~schedule.ok \/ nextLeaderSlot = 0
     THEN [isOnLeaderSchedule |-> FALSE, timeToNextLeaderSlot |-> 0,
           err |-> ""]
     ELSE [isOnLeaderSchedule |-> TRUE,
           timeToNextLeaderSlot |-> (nextLeaderSlot - currentSlot) * avgSlotTime,
           err |-> ""]

\* one call about to be made, with what the RPCs will answer
LeaderSlotOf(currentSlot, epochInfo, schedule) ==
  [pc |-> "call", currentSlot |-> currentSlot, epochInfo |-> epochInfo,
   schedule |-> schedule, avgSlotTime |-> FallbackSlotTime,
   result |-> [isOnLeaderSchedule |-> FALSE, timeToNextLeaderSlot |-> 0,
               err |-> ""]]

LeaderSlotCall ==
  /\ leaderSlot.pc = "call"
  /\ \E failed \in {"", "failed to get current slot",
                    "failed to get epoch info",
                    "failed to get leader schedule"} :
       leaderSlot' = [leaderSlot EXCEPT
                        !.pc = "returned",
                        !.result = GetTimeToNextLeaderSlotForPubkey(
                                     leaderSlot.currentSlot,
                                     leaderSlot.epochInfo, leaderSlot.schedule,
                                     leaderSlot.avgSlotTime, failed)]
  /\ UNCHANGED <<streamVars, coord, hookRun, ranking, handlers, slotCache,
                 hookProc, gossipLoop>>

LeaderSlotInit ==
  /\ StreamAtRest
  /\ hookRun = IdleHookRun
  /\ ranking = IdleRanking
  /\ handlers = IdleHandlers
  /\ slotCache = IdleSlotCache
  /\ hookProc = IdleHookProc
  /\ leaderSlot \in {LeaderSlotOf(c, e, s) :
                       c \in 0..(MaxRelativeSlot + 1), e \in EpochInfos,
                       s \in LeaderSchedules}
  /\ gossipLoop = IdleGossipLoop

LeaderSlotNext == LeaderSlotCall

LeaderSlotSpec == LeaderSlotInit /\ [][LeaderSlotNext]_vars

(* ---- Server.confirmGossipNodesPostFailover on its own (GossipLoopSpec) - *)
\* what GetClusterNodes may report for host h after the identities were
\* set: nothing, or either of the host's pubkeys
GossipAnswers(h) == {"", PubOf(h, "active"), PubOf(h, "passive")}

\* the message of the stream the function reads the node infos from
GossipLoopMessage ==
  [ZeroMessage EXCEPT !.ActiveNodeInfo = ActiveNodeInfoOf(cfg),
                      !.PassiveNodeInfo = PassiveNodeInfoOf(cfg)]

\* one iteration of the retry loop, and, when the loop ends with it, the
\* return of the closure and the closing log line, which reads the two flags
GossipLoopAttempt ==
  /\ gossipLoop.pc = "loop"
  /\ \E pkB \in GossipAnswers("B") : \E pkA \in GossipAnswers("A") :
       LET g == GossipAttempt(gossipLoop.locals, GossipLoopMessage, pkB, pkA)
           ends == ~GossipLoopContinues(g)
       IN gossipLoop' =
            [pc |-> IF ends THEN "returned" ELSE "loop",
             locals |-> GossipLocals(g),
             attempts |-> Append(gossipLoop.attempts,
                                 [err |-> g.err, slept |-> g.slept,
                                  active |-> g.active,
                                  passive |-> g.passive]),
             log |-> IF ~ends THEN ""
                     ELSE IF g.active /\ g.passive
                     THEN "Gossip confirms nodes switched roles successfully"
                     ELSE "Gossip does not confirm role switch"]
  /\ UNCHANGED <<streamVars, coord, hookRun, ranking, handlers, slotCache,
                 hookProc, leaderSlot>>

GossipLoopInit ==
  /\ StreamAtRest
  /\ hookRun = IdleHookRun
  /\ ranking = IdleRanking
  /\ handlers = IdleHandlers
  /\ slotCache = IdleSlotCache
  /\ hookProc = IdleHookProc
  /\ leaderSlot = IdleLeaderSlot
  /\ gossipLoop = [pc |-> "loop",
                   locals |-> [retryCount |-> 0, active |-> FALSE,
                               passive |-> FALSE],
                   attempts |-> <<>>,
                   log |-> ""]

GossipLoopNext == GossipLoopAttempt

GossipLoopSpec == GossipLoopInit /\ [][GossipLoopNext]_vars

(* ------- the run after this one on the passive host (RerunSpec) ------- *)
RerunNext == Next \/ NextRunMakeActive

RerunSpec == Init /\ [][RerunNext]_vars

(* ------------------------ properties checked -------------------------- *)
Range(h) == {h[i] : i \in DOMAIN h}
Count(h, e) == Cardinality({i \in DOMAIN h : h[i] = e})
\* some occurrence of a comes before some occurrence of b
Precedes(h, a, b) == \E i \in DOMAIN h :
                        h[i] = a /\ \E j \in (i + 1)..Len(h) : h[j] = b
\* every occurrence of b has an occurrence of a before it
AlwaysAfter(h, a, b) == \A j \in DOMAIN h :
                          h[j] = b => \E i \in 1..(j - 1) : h[i] = a
Happened(h, e) == \E i \in DOMAIN h : h[i] = e

CompletionEncoded ==
  \E i \in DOMAIN wire :
     wire[i].from = "s" /\ wire[i].msg.IsSuccessfullyCompleted

\* C1: the server calls its set-identity command only after the client's
\* set-identity command has returned without error and after the server has
\* decoded the tower message and found the hash of the received bytes equal
\* to the declared hash; the two hosts never run the active identity at the
\* same time.
C1_ServerSwitchesAfterClient ==
  /\ Happened(shist, "s_run_command") =>
       /\ Happened(chist, "c_set_identity_ok")
       /\ sread = 2
       /\ ComputeTowerFileHashFromBytes(smsg.ActiveNodeInfo.TowerFileBytes)
            = smsg.ActiveNodeInfo.TowerFileHash
       /\ Precedes(shist, "s_hash_ok", "s_run_command")
  /\ ~(identity["A"] = "active" /\ identity["B"] = "active")

C1_Witness ==
  /\ Happened(chist, "c_exec") /\ Happened(shist, "s_exec")
  /\ identity["A"] = "passive" /\ identity["B"] = "active"

\* C2: once the server has decoded the tower message, it writes the received
\* bytes to its tower file exactly when their computed hash equals the
\* declared tower_file_hash; on a mismatch the file receives no bytes and the
\* server's set-identity command is never called.
C2_WriteIffHashMatches ==
  LET received == smsg.ActiveNodeInfo.TowerFileBytes
      matches == ComputeTowerFileHashFromBytes(received)
                   = smsg.ActiveNodeInfo.TowerFileHash
      writeCalled == Happened(shist, "s_write")
                       \/ Happened(shist, "s_write_err")
  IN /\ towerB.bytes # <<>> => sread = 2 /\ matches /\ towerB.bytes = received
     /\ writeCalled => sread = 2 /\ matches
     /\ Happened(shist, "s_write") => towerB.bytes = received
     /\ (sread = 2 /\ matches) => spc = "write_tower" \/ writeCalled
     /\ (sread = 2 /\ ~matches) =>
          /\ towerB.bytes = <<>>
          /\ ~writeCalled
          /\ ~Happened(shist, "s_run_command")
          /\ spc = "fatal"

C2_Witness ==
  /\ Happened(shist, "s_write")
  /\ towerB.bytes = smsg.ActiveNodeInfo.TowerFileBytes
  /\ towerB.bytes # cmsg.ActiveNodeInfo.TowerFileBytes

\* C3: in a dry run no set-identity process is started on either side and the
\* command runner reports success, while a dry run that reaches the
\* completion message has gone through admission, the pre-hooks of both
\* sides, the tower transfer with its hash check and the tower write.
C3_DryRunSkipsOnlySetIdentity ==
  ~cfg.serverNotADrill =>
    /\ ~Happened(chist, "c_exec") /\ ~Happened(shist, "s_exec")
    /\ ~Happened(chist, "c_exec_failed") /\ ~Happened(shist, "s_exec_failed")
    /\ identity["A"] = "active" /\ identity["B"] = "passive"
    /\ CompletionEncoded =>
         /\ \A e \in {"s_version_ok", "s_peer_ok", "s_confirmed", "s_sample",
                      "s_tower_open", "s_pre_hooks", "s_enc_admit",
                      "s_hash_ok", "s_write", "s_run_command"} :
              Happened(shist, e)
         /\ \A e \in {"c_can_proceed", "c_pre_hooks", "c_run_command",
                      "c_tower_read"} : Happened(chist, e)
         /\ towerB.exists
         /\ towerB.bytes = smsg.ActiveNodeInfo.TowerFileBytes

C3_Witness ==
  /\ ~cfg.serverNotADrill
  /\ CompletionEncoded
  /\ Happened(chist, "c_completed")
  /\ Happened(chist, "c_run_command") /\ Happened(shist, "s_run_command")

\* C4: whether the set-identity commands are started is decided by the
\* server's --not-a-drill flag alone: on either side RunCommand starts the
\* process if and only if the server was started with --not-a-drill,
\* whatever the client's flag is.
C4_ServerFlagDecides ==
  /\ Happened(chist, "c_run_command") =>
       (Happened(chist, "c_exec") <=> cfg.serverNotADrill)
  /\ Happened(shist, "s_run_command") =>
       (Happened(shist, "s_exec") <=> cfg.serverNotADrill)

C4_Witness ==
  /\ cfg.clientNotADrill /\ ~cfg.serverNotADrill
  /\ Happened(chist, "c_run_command") /\ ~Happened(chist, "c_exec")
  /\ Happened(shist, "s_run_command") /\ ~Happened(shist, "s_exec")

\* C5: a side whose set-identity command fails in a real run ends with exit
\* code 1, and neither side calls a set-identity command more than once.
C5_FailedCommandIsFatal ==
  /\ Happened(chist, "c_exec_failed") => cexit = "exit1"
  /\ Happened(shist, "s_exec_failed") => sexit = "exit1"
  /\ Count(chist, "c_run_command") <= 1
  /\ Count(shist, "s_run_command") <= 1

\* C6 (amended): the server takes the admission step (SetCanProceed(true)
\* followed by Encode) at most once, and only after the version check, the
\* peer validation, the operator's confirmation, the storing of one credit
\* sample, the opening of the tower file and the pre-hooks, in this order;
\* the flag is never reset, so the only other message the server encodes
\* with can_proceed=true is the completion message; the client starts its
\* leader-slot gate, its pre-hooks and its set-identity command only after
\* it has decoded a message with can_proceed=true.
C6_AdmissionOrder ==
  /\ \A i \in DOMAIN FromServer :
       (FromServer[i].msg.CanProceed /\ i > 1) =>
          i = 2 /\ FromServer[i].msg.IsSuccessfullyCompleted
  /\ Count(shist, "s_enc_admit") <= 1
  /\ Happened(shist, "s_enc_admit") =>
       /\ Precedes(shist, "s_dec", "s_version_ok")
       /\ Precedes(shist, "s_version_ok", "s_peer_ok")
       /\ Precedes(shist, "s_peer_ok", "s_confirmed")
       /\ Precedes(shist, "s_confirmed", "s_sample")
       /\ Precedes(shist, "s_sample", "s_tower_open")
       /\ Precedes(shist, "s_tower_open", "s_pre_hooks")
       /\ Precedes(shist, "s_pre_hooks", "s_enc_admit")
       /\ \A e \in {"s_version_ok", "s_peer_ok", "s_confirmed", "s_sample",
                    "s_tower_open", "s_pre_hooks"} : Count(shist, e) = 1
       /\ towerB.exists
       /\ Len(FromServer) >= 1
       /\ FromServer[1].msg.CanProceed
       /\ FromServer[1].msg.ErrorMessage = ""
       /\ Len(FromServer[1].msg.CreditSamples) = 1
  /\ \A i \in DOMAIN FromServer :
       (FromServer[i].msg.CanProceed /\ i = 1) => Happened(shist, "s_enc_admit")
  /\ \A e \in {"c_gate_poll", "c_gate_skipped", "c_gate_err", "c_pre_hooks",
               "c_run_command"} :
       Happened(chist, e) =>
         /\ AlwaysAfter(chist, "c_can_proceed", e)
         /\ cread >= 1
         /\ FromServer[1].msg.CanProceed

C6_Witness ==
  /\ Happened(shist, "s_enc_admit")
  /\ Happened(chist, "c_gate_ok")
  /\ Happened(chist, "c_pre_hooks")
  /\ Happened(chist, "c_run_command")
  /\ CompletionEncoded

\* C6 (as stated): at most one of the messages the server encodes on a stream
\* carries can_proceed=true, and the admission order above holds.
C6_CanProceedEncodedOnce ==
  /\ Cardinality({i \in DOMAIN FromServer : FromServer[i].msg.CanProceed}) <= 1
  /\ Count(shist, "s_enc_admit") <= 1
  /\ Happened(shist, "s_enc_admit") => Precedes(shist, "s_pre_hooks", "s_enc_admit")

\* C7: once the server has encoded the completion message of a real run, the
\* former active host runs its passive identity and the former passive host
\* the active identity, so the Role Resolver on refreshed gossip gives each
\* host the opposite of the role it had before the run.
C7_RolesSwapped ==
  (cfg.serverNotADrill /\ CompletionEncoded) =>
    /\ identity["A"] = "passive" /\ identity["B"] = "active"
    /\ IsPassive("A") /\ ~IsActive("A")
    /\ IsActive("B") /\ ~IsPassive("B")

C7_Witness ==
  /\ cfg.serverNotADrill /\ CompletionEncoded
  /\ IsPassive("A") /\ IsActive("B")

\* C8: every completion message the server encodes has
\* failover_start_slot <= failover_end_slot.
C8_StartSlotNotAfterEndSlot ==
  \A i \in DOMAIN wire :
    (wire[i].from = "s" /\ wire[i].msg.IsSuccessfullyCompleted) =>
      wire[i].msg.FailoverStartSlot <= wire[i].msg.FailoverEndSlot

\* C9: the messages on the stream alternate client, server, client, server,
\* at most four of them; a side encodes only when it has decoded the peer's
\* previous message since its own last encode, and the server's first encode
\* comes after its decode of the client's initial message.
IsEncode(e) == e \in {"c_enc", "s_enc_err", "s_enc_admit", "s_enc_completed"}
IsDecode(e) == e \in {"c_dec", "s_dec"}
DecodeBetween(h) ==
  \A i \in DOMAIN h :
    IsEncode(h[i]) =>
      \A j \in (i + 1)..Len(h) :
        IsEncode(h[j]) => \E k \in (i + 1)..(j - 1) : IsDecode(h[k])

C9_HalfDuplex ==
  /\ Len(wire) <= 4
  /\ \A i \in DOMAIN wire : wire[i].from = IF i % 2 = 1 THEN "c" ELSE "s"
  /\ Len(FromServer) <= sread
  /\ Len(FromClient) <= cread + 1
  /\ DecodeBetween(chist) /\ DecodeBetween(shist)
  /\ \A j \in DOMAIN shist :
       IsEncode(shist[j]) => \E i \in DOMAIN shist : i < j /\ shist[i] = "s_dec"

C9_Witness ==
  /\ Len(wire) = 4
  /\ cread = 2 /\ sread = 2

\* C10: once the server has encoded the completion message and its handler
\* has finished, the listener is closed and the context is cancelled.
C10_ServerClosesAfterCompletion ==
  (Happened(shist, "s_enc_completed") /\ spc \in {"returned", "closed"}) =>
    listener = "closed" /\ ctxCancelled

(* ---------------- failures during admission (Spec) -------------------- *)
ServerMessages == {i \in DOMAIN wire : wire[i].from = "s"}
NoSetIdentityNoHook ==
  /\ ~Happened(chist, "c_run_command") /\ ~Happened(shist, "s_run_command")
  /\ ~Happened(chist, "c_pre_hooks") /\ ~Happened(shist, "s_pre_hooks")
  /\ ~Happened(chist, "c_post_hooks") /\ ~Happened(shist, "s_post_hooks")
  /\ identity["A"] = "active" /\ identity["B"] = "passive"

\* C11: when the client's version differs from the server's, the server
\* encodes exactly one message, which carries error_message and not
\* can_proceed, and exits fatally; the client exits fatally once it has
\* decoded it; no set-identity command and no hook runs on either side and
\* the server does not open its tower file.
C11_VersionMismatchIsFatal ==
  cfg.clientVersion # cfg.serverVersion =>
    /\ NoSetIdentityNoHook
    /\ ~Happened(shist, "s_tower_open") /\ ~towerB.exists
    /\ Len(FromServer) <= 1
    /\ sread >= 1 =>
         /\ Len(FromServer) = 1
         /\ FromServer[1].msg.ErrorMessage # ""
         /\ ~FromServer[1].msg.CanProceed
         /\ spc = "fatal" /\ sexit = "exit1"
    /\ cread >= 1 => cpc = "fatal" /\ cexit = "exit1"

C11_Witness ==
  /\ cfg.clientVersion # cfg.serverVersion
  /\ sexit = "exit1" /\ cexit = "exit1"
  /\ cread = 1 /\ Happened(chist, "c_version_mismatch")

\* C12: when a must_succeed hook of hooks.pre.when_passive fails, the server
\* encodes error_message and exits fatally, no message of the server carries
\* can_proceed=true, the client exits fatally once it has decoded the error,
\* and neither a tower transfer nor a set-identity command happens.
C12_PreHookFailureAborts ==
  Happened(shist, "s_hook_failed") =>
    /\ spc = "fatal" /\ sexit = "exit1"
    /\ Len(FromServer) = 1
    /\ FromServer[1].msg.ErrorMessage # ""
    /\ \A i \in ServerMessages : ~wire[i].msg.CanProceed
    /\ ~Happened(shist, "s_enc_admit")
    /\ cread >= 1 => cpc = "fatal" /\ cexit = "exit1"
    /\ Len(FromClient) <= 1
    /\ ~Happened(chist, "c_tower_read") /\ towerB.bytes = <<>>
    /\ ~Happened(chist, "c_run_command") /\ ~Happened(shist, "s_run_command")
    /\ identity["A"] = "active" /\ identity["B"] = "passive"

C12_Witness ==
  /\ Happened(shist, "s_hook_failed")
  /\ sexit = "exit1" /\ cexit = "exit1"
  /\ Happened(chist, "c_cannot_proceed")

\* C13: when the operator declines the confirmation, the server encodes
\* error_message to the client, closes its listener and exits with code 1,
\* and it has pulled no credit sample, opened no tower file, run no hook and
\* run no set-identity command.
C13_DeclinedConfirmationExits ==
  Happened(shist, "s_declined") =>
    /\ spc = "fatal" /\ sexit = "exit1"
    /\ listener = "closed"
    /\ Len(FromServer) = 1
    /\ FromServer[1].msg.ErrorMessage # "" /\ ~FromServer[1].msg.CanProceed
    /\ ~Happened(shist, "s_sample") /\ smsg.CreditSamples = <<>>
    /\ ~Happened(shist, "s_tower_open") /\ ~towerB.exists
    /\ ~Happened(shist, "s_pre_hooks") /\ ~Happened(shist, "s_post_hooks")
    /\ ~Happened(shist, "s_run_command")
    /\ identity["B"] = "passive"

C13_Witness ==
  /\ Happened(shist, "s_declined")
  /\ sexit = "exit1" /\ listener = "closed"
  /\ cread = 1 /\ cexit = "exit1"

\* C16: a client whose declared active identity equals the passive identity
\* the server is configured with does not pass the server's peer validation
\* and is never sent can_proceed=true.
C16_ActiveActiveGuard ==
  (sread >= 1 /\ PubKey(smsg.ActiveNodeInfo.Identities.Active)
                   = PubKey(PassiveNodeInfoOf(cfg).Identities.Passive)) =>
    /\ ~Happened(shist, "s_peer_ok")
    /\ \A i \in ServerMessages : ~wire[i].msg.CanProceed

\* C19: the server makes at most 4 gossip verification attempts; when the
\* swap is not observed it runs no further set-identity command and its
\* process does not stay alive: once the handler has finished the listener
\* is closed, so that Start returns and the exit code is 0.
C19_GossipExhaustionEndsSuccessfully ==
  /\ gossipCheck.retryCount <= GossipMaxRetries
  /\ Happened(shist, "s_gossip_unconfirmed") =>
       /\ gossipCheck.retryCount = GossipMaxRetries
       /\ Count(shist, "s_run_command") = 1
       /\ sexit # "exit1"
       /\ spc \in {"returned", "closed"} => listener = "closed"

\* C20: with the gate enabled the client runs its pre-hooks and its
\* set-identity command only after a poll that reported "not on the leader
\* schedule" or a time of at least min_time_to_leader_slot, a smaller time
\* never ends the loop; with --no-min-time-to-leader-slot no poll is made.
C20_LeaderSlotGate ==
  /\ ~Happened(chist, "c_poll_too_soon")
  /\ ~cfg.noMinTimeToLeaderSlot =>
       /\ ~Happened(chist, "c_gate_skipped")
       /\ \A e \in {"c_pre_hooks", "c_run_command"} :
            Happened(chist, e) =>
              /\ Precedes(chist, "c_poll_pass", "c_gate_ok")
              /\ AlwaysAfter(chist, "c_gate_ok", e)
  /\ cfg.noMinTimeToLeaderSlot =>
       /\ ~Happened(chist, "c_gate_poll")
       /\ remainingRetries = LeaderMaxRetries
       /\ Happened(chist, "c_pre_hooks") =>
            Precedes(chist, "c_can_proceed", "c_gate_skipped")
            /\ Precedes(chist, "c_gate_skipped", "c_pre_hooks")

C20_Witness ==
  /\ ~cfg.noMinTimeToLeaderSlot
  /\ Happened(chist, "c_poll_pass")
  /\ Happened(chist, "c_run_command")
  /\ remainingRetries = LeaderMaxRetries

(* ------------- admission before any stream (CoordSpec) ---------------- *)
CoordDone == coord.pc \in {"error", "returned_nil", "listening", "dialed"}
TowerPolicyDone == Happened(coord.log, "tower_policy")

\* C14: when the gossip pubkey of the local validator equals neither
\* configured identity, Failover binds no listener, dials no peer, leaves the
\* tower file alone and returns an error.
C14_NeitherRoleRejected ==
  (~ValidatorIsActive(coord) /\ ~ValidatorIsPassive(coord)) =>
    /\ ~coord.listenerBound /\ ~coord.dialed
    /\ coord.tower = coord.towerAtStart
    /\ CoordDone => coord.pc = "error"

\* C15 (as stated): the active side dials its peer only when a node that
\* advertises the passive identity's pubkey is present in gossip.
C15_ActiveSideChecksPassiveInGossip ==
  coord.dialed => coord.Identities.Passive \in coord.cluster

\* C15 (amended): it is the passive (arriving) side that consults gossip:
\* before it binds its listener it has found a node advertising the active
\* identity's pubkey, and it returns an error without binding when no such
\* node is found; the active side dials without any such lookup.
C15_PassiveSideChecksActiveInGossip ==
  /\ coord.listenerBound =>
       /\ coord.Identities.Active \in coord.cluster
       /\ Precedes(coord.log, "active_peer_found", "listening")
  /\ (Happened(coord.log, "gossip_check")
        /\ coord.Identities.Active \notin coord.cluster) =>
       /\ coord.pc = "error" /\ ~coord.listenerBound
       /\ coord.tower = coord.towerAtStart
  /\ coord.dialed => ~Happened(coord.log, "gossip_check")

C15_Witness ==
  /\ coord.listenerBound
  /\ ValidatorIsPassive(coord)
  /\ coord.Identities.Active \in coord.cluster

\* C17: on the passive side, before the listener is bound: a tower file that
\* exists is deleted when auto_empty_when_passive is true (and the run goes
\* on, unless the removal itself fails), and makes the run fail with an error
\* naming it, the file untouched, when auto_empty_when_passive is false; a
\* file that does not exist lets the run go on.
C17_TowerFilePolicy ==
  /\ coord.tower # coord.towerAtStart =>
       /\ coord.TowerFileAutoDeleteWhenPassive /\ coord.towerAtStart.exists
       /\ ~coord.tower.exists /\ TowerPolicyDone
  /\ coord.listenerBound =>
       /\ Precedes(coord.log, "tower_policy", "listening")
       /\ ~coord.tower.exists
  /\ TowerPolicyDone =>
       IF coord.towerAtStart.exists
       THEN IF coord.TowerFileAutoDeleteWhenPassive
            THEN \/ ~coord.tower.exists /\ coord.err # "tower_file_exists"
                    /\ coord.err # "remove_failed"
                    /\ ~Happened(coord.log, "tower_policy_error")
                 \/ coord.err = "remove_failed" /\ coord.pc = "error"
                    /\ coord.tower = coord.towerAtStart
                    /\ ~coord.listenerBound
            ELSE /\ coord.pc = "error" /\ coord.err = "tower_file_exists"
                 /\ coord.tower = coord.towerAtStart
                 /\ ~coord.listenerBound
       ELSE /\ coord.tower = coord.towerAtStart
            /\ coord.err \notin {"tower_file_exists", "remove_failed"}
            /\ ~Happened(coord.log, "tower_policy_error")

C17_Witness ==
  /\ coord.listenerBound
  /\ coord.towerAtStart.exists /\ ~coord.tower.exists

\* C18: the active side dials only after the health probe has answered ok
\* (unless --no-wait-for-healthy is set) and after it has found its tower
\* file present with a non-zero size; with a missing or empty tower file
\* Failover returns an error and nothing is dialed.
C18_DialAfterHealthAndTower ==
  /\ Happened(coord.log, "dial") =>
       /\ coord.NoWaitForHealthy \/ Precedes(coord.log, "healthy", "dial")
       /\ Precedes(coord.log, "tower_check", "dial")
       /\ coord.tower.exists /\ coord.tower.size > 0
       /\ ValidatorIsActive(coord)
  /\ coord.dialed => Happened(coord.log, "dial")
  /\ (ValidatorIsActive(coord) /\ Happened(coord.log, "tower_check")
        /\ (~coord.tower.exists \/ coord.tower.size = 0)) =>
       /\ coord.pc = "error"
       /\ coord.err \in {"tower_file_missing", "tower_file_empty"}
       /\ ~coord.dialed

C18_Witness ==
  /\ coord.dialed /\ ~coord.NoWaitForHealthy
  /\ Happened(coord.log, "healthy")

(* --------------------- leader-slot gate retries (Spec) ---------------- *)
\* failed polls of GetTimeToNextLeaderSlotForPubkey so far in the wait
FailedPolls == LeaderMaxRetries - remainingRetries

\* C21: the leader-slot gate tolerates up to 10 failed polls of the time to
\* the next leader slot: it returns its error at the 11th failed poll and
\* not earlier, and that error ends the client with exit code 1 before any
\* pre-hook or set-identity command of the client has run.
C21_LeaderGateRetries ==
  /\ remainingRetries \in 0..LeaderMaxRetries
  /\ Happened(chist, "c_gate_err") =>
       /\ FailedPolls = LeaderMaxRetries
       /\ cpc = "fatal" /\ cexit = "exit1"
       /\ ~Happened(chist, "c_pre_hooks")
       /\ ~Happened(chist, "c_run_command")
       /\ identity["A"] = "active"
       /\ Len(FromClient) = 1
  /\ (cpc = "leader_gate" /\ FailedPolls <= LeaderMaxRetries) =>
       cexit = "running"

C21_Witness ==
  /\ Happened(chist, "c_gate_err")
  /\ remainingRetries = 0
  /\ cexit = "exit1"

(* ---------------------- hook environment (Spec) ----------------------- *)
PreSequences == {"Pre.WhenActive", "Pre.WhenPassive"}
HasRoles(call, this, peer) ==
  /\ {"THIS_NODE_ROLE", "PEER_NODE_ROLE"} \subseteq DOMAIN call.envMap
  /\ call.envMap["THIS_NODE_ROLE"] = this
  /\ call.envMap["PEER_NODE_ROLE"] = peer

\* C23: every pre-hook sequence is given THIS_NODE_ROLE = the role the node
\* had when the run started (active on the client, passive on the server)
\* and PEER_NODE_ROLE = the other role; every post-hook sequence is given
\* the two values swapped (passive on the client, active on the server).
C23_HookRoles ==
  /\ \A i \in DOMAIN hookCalls.c :
       IF hookCalls.c[i].sequence \in PreSequences
       THEN HasRoles(hookCalls.c[i], "active", "passive")
       ELSE HasRoles(hookCalls.c[i], "passive", "active")
  /\ \A i \in DOMAIN hookCalls.s :
       IF hookCalls.s[i].sequence \in PreSequences
       THEN HasRoles(hookCalls.s[i], "passive", "active")
       ELSE HasRoles(hookCalls.s[i], "active", "passive")
  /\ \A i \in DOMAIN hookCalls.c :
       hookCalls.c[i].sequence = IF i = 1 THEN "Pre.WhenActive"
                                 ELSE "Post.WhenPassive"
  /\ \A i \in DOMAIN hookCalls.s :
       hookCalls.s[i].sequence = IF i = 1 THEN "Pre.WhenPassive"
                                 ELSE "Post.WhenActive"
  /\ Len(hookCalls.c)
       = Count(chist, "c_pre_hooks") + Count(chist, "c_post_hooks")
  /\ Len(hookCalls.s)
       = Count(shist, "s_pre_hooks") + Count(shist, "s_post_hooks")

C23_Witness ==
  /\ Len(hookCalls.c) = 2 /\ Len(hookCalls.s) = 2
  /\ hookCalls.c[2].envMap["THIS_NODE_ROLE"] = "passive"
  /\ hookCalls.s[2].envMap["THIS_NODE_ROLE"] = "active"
  /\ identity["A"] = "passive" /\ identity["B"] = "active"

(* ---------------------- hook sequences (HookSpec) --------------------- *)
\* the failure of hook j is one that ends the sequence: a pre-hook with
\* must_succeed set
EndsSequence(r, j) ==
  r.sequence \in PreSequences /\ r.hooks[j].MustSucceed

\* C22: in each of the four hook sequences the hooks run one at a time in
\* declared order; the failure of a hook ends the sequence, the remaining
\* hooks not run and the error returned, if and only if the hook is a
\* pre-hook with must_succeed=true; any other failure is logged and the next
\* hook runs.
C22_HookSequencing ==
  hookRun.pc # "idle" =>
    /\ \A j \in DOMAIN hookRun.started : hookRun.started[j] = j
    /\ hookRun.pc = "loop" => Len(hookRun.started) = hookRun.i - 1
    /\ \A j \in DOMAIN hookRun.started :
         ~hookRun.ok[j] =>
           IF EndsSequence(hookRun, j)
           THEN /\ hookRun.pc = "returned" /\ hookRun.err = j
                /\ Len(hookRun.started) = j
                /\ j \notin Range(hookRun.logged)
           ELSE /\ hookRun.err # j
                /\ j \in Range(hookRun.logged)
                /\ j < Len(hookRun.hooks) =>
                     \/ j + 1 \in Range(hookRun.started)
                     \/ hookRun.pc = "loop" /\ hookRun.i = j + 1
    /\ \A j \in Range(hookRun.logged) : ~hookRun.ok[j]
    /\ hookRun.err # 0 =>
         ~hookRun.ok[hookRun.err] /\ EndsSequence(hookRun, hookRun.err)
    /\ (hookRun.pc = "returned" /\ hookRun.err = 0) =>
         Len(hookRun.started) = Len(hookRun.hooks)

C22_Witness ==
  /\ hookRun.pc = "returned"
  /\ Len(hookRun.hooks) = 3
  /\ hookRun.logged = <<1>>
  /\ hookRun.err = 2
  /\ hookRun.started = <<1, 2>>

\* C24: the variables Hook.Run gives the child process are in lexicographic
\* order of their keys, one for every key of the env map, and the value of
\* each is the map's value without its leading and trailing white space.
C24_EnvSortedAndTrimmed ==
  (hookRun.pc # "idle" /\ hookRun.started # <<>>) =>
    /\ \A i \in DOMAIN hookRun.cmdEnv : \A j \in DOMAIN hookRun.cmdEnv :
         i < j => StringLess(hookRun.cmdEnv[i].key, hookRun.cmdEnv[j].key)
    /\ {hookRun.cmdEnv[i].key : i \in DOMAIN hookRun.cmdEnv}
         = DOMAIN hookRun.envMap
    /\ \A i \in DOMAIN hookRun.cmdEnv :
         LET v == hookRun.cmdEnv[i].value
         IN /\ v = TrimSpace(hookRun.envMap[hookRun.cmdEnv[i].key])
            /\ v # <<>> => ~IsSpace(v[1]) /\ ~IsSpace(v[Len(v)])

(* --------------------- what the wire carries (Spec) ------------------- *)
\* the identities of a NodeInfo hold no private key
PublicOnly(nodeInfo) ==
  /\ nodeInfo.Identities.Active.Key = ""
  /\ nodeInfo.Identities.Passive.Key = ""

\* C25: the NodeInfo of either side, as encoded on the stream, carries the
\* public keys and the key-file paths of its identities only: no message on
\* the wire holds the private key of an identity.
C25_NoPrivateKeyOnWire ==
  \A i \in DOMAIN wire :
    /\ PublicOnly(wire[i].msg.ActiveNodeInfo)
    /\ PublicOnly(wire[i].msg.PassiveNodeInfo)

(* ----------------------- role resolver (CoordSpec) -------------------- *)
Constructed == Happened(coord.log, "configured")

\* C26: a Validator whose construction succeeded has two different public
\* keys (construction rejects equal ones), so for every gossip pubkey
\* IsActive and IsPassive are never both true and exactly one of active,
\* passive and neither holds; the answer does not change between the calls
\* of one run, so Failover's second look at the role never contradicts its
\* first.
C26_ExactlyOneRole ==
  /\ coord.Identities.Active = coord.Identities.Passive =>
       /\ ~Constructed
       /\ coord.pc \in {"new", "error"}
       /\ ~coord.listenerBound /\ ~coord.dialed
  /\ Constructed =>
       /\ coord.Identities.Active # coord.Identities.Passive
       /\ ~(ValidatorIsActive(coord) /\ ValidatorIsPassive(coord))
       /\ Cardinality({r \in {"active", "passive", "neither"} :
            \/ r = "active" /\ ValidatorIsActive(coord)
            \/ r = "passive" /\ ValidatorIsPassive(coord)
            \/ r = "neither" /\ ~ValidatorIsActive(coord)
                 /\ ~ValidatorIsPassive(coord)}) = 1
  /\ Happened(coord.log, "makePassive") =>
       /\ ValidatorIsActive(coord) /\ ~ValidatorIsPassive(coord)
       /\ coord.err # "already passive"
  /\ Happened(coord.log, "makeActive") =>
       /\ ~ValidatorIsActive(coord)
       /\ coord.err # "already active"

C26_Witness ==
  /\ Constructed
  /\ coord.Identities = [Active |-> "PubPassive", Passive |-> "PubActive"]
  /\ Happened(coord.log, "makePassive")
  /\ ValidatorIsActive(coord) /\ ~ValidatorIsPassive(coord)
  /\ coord.dialed

(* ------------------------ credit rank (RankSpec) ---------------------- *)
\* the credit difference of the account at input position i, read from the
\* input as the claim describes it
DiffAt(current, i) ==
  IF current[i].EpochCredits = <<>> THEN 0
  ELSE current[i].EpochCredits[Len(current[i].EpochCredits)][2]
         - current[i].EpochCredits[Len(current[i].EpochCredits)][3]

\* the input positions a stable descending sort places before position i
PlacedBefore(current, i) ==
  {j \in DOMAIN current :
     \/ DiffAt(current, j) > DiffAt(current, i)
     \/ DiffAt(current, j) = DiffAt(current, i) /\ j < i}

\* C27: for a pubkey among the current vote accounts the call returns no
\* error, an account of that pubkey and rank = 1 + the number of accounts a
\* stable descending sort on the credit difference of the last epoch entry
\* (0 without an entry) places before it, ties in input order, the account
\* being the best-placed one of that pubkey; for a pubkey that is not among
\* them it returns an error, a nil account and rank 0.
C27_CreditRank ==
  (ranking.pc = "returned" /\ ranking.result.err # "rpc") =>
    LET current == ranking.current
        matches == {i \in DOMAIN current :
                      current[i].NodePubkey = ranking.pubkey}
    IN IF matches = {}
       THEN /\ ranking.result.err = "not found"
            /\ ranking.result.voteAccount = NilVoteAccount
            /\ ranking.result.creditRank = 0
       ELSE /\ ranking.result.err = ""
            /\ \E i \in matches :
                 /\ ranking.result.voteAccount = current[i]
                 /\ ranking.result.creditRank
                      = 1 + Cardinality(PlacedBefore(current, i))
                 /\ \A k \in matches :
                      ranking.result.creditRank
                        <= 1 + Cardinality(PlacedBefore(current, k))

\* three accounts with a tie between the first and the last: the account
\* asked for is the last one and is ranked behind its equal
C27_Witness ==
  /\ ranking.pc = "returned"
  /\ Len(ranking.current) = 3
  /\ ranking.current[1].NodePubkey = "V2"
  /\ ranking.current[2].NodePubkey = "V2"
  /\ ranking.current[3].NodePubkey = "V1"
  /\ CreditDiff(ranking.current[1]) = 2
  /\ CreditDiff(ranking.current[2]) = 0
  /\ CreditDiff(ranking.current[3]) = 2
  /\ ranking.pubkey = "V1"
  /\ ranking.result.creditRank = 2

(* ------------------- the server's replies (Spec) ---------------------- *)
\* C28: every message the server encodes carries its passive_node_info and
\* its is_dry_run and exactly one of can_proceed=true and a non-empty
\* error_message; no message on the stream, from either side, has
\* can_proceed=true together with a non-empty error_message.
C28_ReplyShape ==
  /\ \A i \in DOMAIN FromServer :
       /\ FromServer[i].msg.PassiveNodeInfo = PassiveNodeInfoOf(cfg)
       /\ FromServer[i].msg.PassiveNodeInfo # ZeroNodeInfo
       /\ FromServer[i].msg.IsDryRunFailover = ServerIsDryRun(cfg)
       /\ FromServer[i].msg.CanProceed <=> FromServer[i].msg.ErrorMessage = ""
  /\ \A i \in DOMAIN wire :
       ~(wire[i].msg.CanProceed /\ wire[i].msg.ErrorMessage # "")
  /\ \A i \in DOMAIN FromClient :
       i = 1 => ~FromClient[i].msg.CanProceed
                  /\ FromClient[i].msg.ErrorMessage = ""

C28_Witness ==
  /\ Len(FromServer) = 1 /\ cread = 1
  /\ ServerIsDryRun(cfg)
  /\ FromServer[1].msg.IsDryRunFailover
  /\ FromServer[1].msg.ErrorMessage # ""
  /\ ~FromServer[1].msg.CanProceed
  /\ Happened(shist, "s_tower_open")
  /\ cmsg.PassiveNodeInfo = PassiveNodeInfoOf(cfg)

(* ----------------- the tower hand-over on the client (Spec) ----------- *)
\* C29: the client reads the tower file, and computes its hash, only after
\* its set-identity command returned successfully, and encodes the tower
\* message only after the read succeeded; when the command or the read
\* fails the client sends no tower message.
C29_TowerAfterSetIdentity ==
  /\ AlwaysAfter(chist, "c_set_identity_ok", "c_tower_read")
  /\ AlwaysAfter(chist, "c_set_identity_ok", "c_tower_read_err")
  /\ Count(chist, "c_enc") = Len(FromClient)
  /\ Len(FromClient) <= 2
  /\ \A j \in DOMAIN chist :
       (chist[j] = "c_enc" /\ \E i \in 1..(j - 1) : chist[i] = "c_enc") =>
          \E k \in 1..(j - 1) :
             /\ chist[k] = "c_tower_read"
             /\ \E i \in 1..(k - 1) : chist[i] = "c_set_identity_ok"
  /\ \A i \in DOMAIN FromClient :
       LET info == FromClient[i].msg.ActiveNodeInfo
       IN IF i = 1
          THEN info.TowerFileBytes = <<>> /\ info.TowerFileHash = <<>>
          ELSE /\ info.TowerFileBytes \in TowerContents
               /\ info.TowerFileHash =
                    ComputeTowerFileHashFromBytes(info.TowerFileBytes)
  /\ (Happened(chist, "c_exec_failed") \/ Happened(chist, "c_tower_read_err"))
       => Len(FromClient) <= 1

C29_Witness ==
  /\ Len(FromClient) = 2
  /\ Precedes(chist, "c_set_identity_ok", "c_tower_read")
  /\ Precedes(chist, "c_tower_read", "c_enc")
  /\ FromClient[2].msg.ActiveNodeInfo.TowerFileBytes = <<1, 2>>

(* ------------------------- the stamps (Spec) -------------------------- *)
\* the stamps of a message, in the order the claim gives them
ActiveStamps(m) ==
  <<m.ActiveNodeSetIdentityStartTime, m.ActiveNodeSetIdentityEndTime,
    m.ActiveNodeSyncTowerFileStartTime, m.ActiveNodeSyncTowerFileEndTime>>
PassiveStamps(m) ==
  <<m.PassiveNodeSyncTowerFileEndTime, m.PassiveNodeSetIdentityStartTime,
    m.PassiveNodeSetIdentityEndTime>>
\* every stamp was taken, and none is earlier than the one before it
Ascending(stamps) ==
  /\ \A i \in DOMAIN stamps : stamps[i] > 0
  /\ \A i \in DOMAIN stamps : \A j \in DOMAIN stamps :
       i < j => stamps[i] <= stamps[j]
\* each step of the list that happened has the one before it earlier in h
InThisOrder(h, steps) ==
  \A i \in 1..(Len(steps) - 1) : AlwaysAfter(h, steps[i], steps[i + 1])

\* C30: in every completed run the stamps are ordered
\* active_set_identity_start <= active_set_identity_end <=
\* active_sync_tower_start <= active_sync_tower_end on the client and
\* passive_sync_tower_end <= passive_set_identity_start <=
\* passive_set_identity_end on the server, each start stamp is taken before
\* and each end stamp after the operation it brackets, failover_start_slot
\* is set before the slot-alignment wait, and failover_end_slot is read
\* after passive_set_identity_end.
C30_StampOrder ==
  /\ ActiveStamps(cmsg) =
       <<Now(chist, "c_stamp_set_identity_start"),
         Now(chist, "c_stamp_set_identity_end"),
         Now(chist, "c_stamp_sync_tower_start"),
         Now(chist, "c_stamp_sync_tower_end")>>
  /\ PassiveStamps(smsg) =
       <<Now(shist, "s_stamp_sync_tower_end"),
         Now(shist, "s_stamp_set_identity_start"),
         Now(shist, "s_stamp_set_identity_end")>>
  /\ InThisOrder(chist,
       <<"c_slot", "c_wait_next_slot", "c_stamp_set_identity_start",
         "c_run_command", "c_set_identity_ok", "c_stamp_set_identity_end",
         "c_stamp_sync_tower_start", "c_tower_read",
         "c_stamp_sync_tower_end">>)
  /\ AlwaysAfter(chist, "c_stamp_sync_tower_start", "c_tower_read_err")
  /\ AlwaysAfter(chist, "c_run_command", "c_exec_failed")
  /\ InThisOrder(shist,
       <<"s_write", "s_stamp_sync_tower_end", "s_stamp_set_identity_start",
         "s_run_command", "s_set_identity_ok", "s_stamp_set_identity_end",
         "s_get_slot", "s_enc_completed">>)
  /\ \A i \in DOMAIN FromServer :
       FromServer[i].msg.IsSuccessfullyCompleted =>
          /\ Ascending(ActiveStamps(FromServer[i].msg))
          /\ Ascending(PassiveStamps(FromServer[i].msg))
          /\ ActiveStamps(FromServer[i].msg) = ActiveStamps(cmsg)
          /\ FromServer[i].msg.FailoverStartSlot > 0
  /\ cmsg.IsSuccessfullyCompleted =>
          /\ Ascending(ActiveStamps(cmsg))
          /\ Ascending(PassiveStamps(cmsg))
          /\ PassiveStamps(cmsg) = PassiveStamps(smsg)

C30_Witness ==
  /\ CompletionEncoded
  /\ cmsg.IsSuccessfullyCompleted
  /\ Happened(chist, "c_exec") /\ Happened(shist, "s_exec")
  /\ cmsg.ActiveNodeSetIdentityStartTime < cmsg.ActiveNodeSyncTowerFileEndTime
  /\ cmsg.PassiveNodeSyncTowerFileEndTime < cmsg.PassiveNodeSetIdentityEndTime

(* --------------- concurrent handlers (HandlerSpec) -------------------- *)
\* C31: when the server handles two accepted failover streams at the same
\* time, each handler decodes, mutates and encodes only the message of its
\* own stream: no handler uses the other stream's Stream object, and every
\* message written to a stream was written by that stream's handler.
C31_HandlersIsolated ==
  handlers.pc = "serving" =>
    /\ \A t \in AcceptedStreams : handlers.task[t].used \subseteq {t}
    /\ \A i \in AcceptedStreams : \A k \in DOMAIN handlers.stream[i].sent :
         handlers.stream[i].sent[k].by = i

(* ------------------ the slot-time cache (SlotCacheSpec) --------------- *)
\* C32: of the concurrent callers of getAverageSlotTime that find the cache
\* stale, one refreshes it per 30 s window (two refreshes lie a window or
\* more apart), every other caller returns the value the last refresh
\* stored, and while the cached value is being written no caller holds the
\* read lock or another write lock.
C32_OneRefreshPerWindow ==
  slotCache.pc = "running" =>
    /\ \A i \in DOMAIN slotCache.refreshes :
       \A j \in DOMAIN slotCache.refreshes :
         i < j => slotCache.refreshes[j].at - slotCache.refreshes[i].at
                     >= CacheWindow
    /\ \A c \in Callers :
         slotCache.caller[c].pc = "returned" =>
           /\ slotCache.caller[c].after >= 1
           /\ slotCache.caller[c].result =
                slotCache.refreshes[slotCache.caller[c].after].value
    /\ (slotCache.writer # 0 \/ slotCache.midWrite) =>
         /\ slotCache.readers = {}
         /\ \A c \in Callers :
              slotCache.caller[c].pc \in {"recheck", "fetch", "store", "stamp"}
                => c = slotCache.writer
    /\ slotCache.midWrite => slotCache.writer # 0

C32_Witness ==
  /\ slotCache.pc = "running"
  /\ Len(slotCache.refreshes) = 1
  /\ slotCache.refreshes[1].value = 500
  /\ \A c \in Callers : slotCache.caller[c].pc = "returned"
  /\ \E c \in Callers : ~slotCache.caller[c].refreshed
                          /\ slotCache.caller[c].result = 500
  /\ \E c \in Callers : slotCache.caller[c].refreshed

(* ---------------- the output of a hook (HookProcSpec) ----------------- *)
\* the non-blank lines, trimmed, that the child has written to stream s
NonBlankWritten(s) ==
  SelectSeq([i \in 1..hookProc.written[s] |-> TrimSpace(hookProc.script[s][i])],
            LAMBDA line : line # <<>>)
\* the lines of stream s in the log
Logged(s) ==
  [i \in DOMAIN SelectSeq(hookProc.log, LAMBDA e : e.stream = s) |->
     SelectSeq(hookProc.log, LAMBDA e : e.stream = s)[i].line]

\* C33: Hook.Run returns only after the child has exited and both output
\* readers have finished, and by then every non-blank line the child wrote to
\* stdout or stderr has been forwarded to the log.
C33_OutputDrainedBeforeReturn ==
  hookProc.pc = "returned" =>
    /\ hookProc.exited
    /\ \A s \in HookStreams : hookProc.reader[s] = "done"
    /\ \A s \in HookStreams : Logged(s) = NonBlankWritten(s)

\* the part of C33 that the code keeps: the return comes after the exit of
\* the child and after both readers
C33_ReturnAfterExitAndReaders ==
  hookProc.pc = "returned" =>
    /\ hookProc.exited
    /\ \A s \in HookStreams : hookProc.reader[s] = "done"

(* ---------------------- credit samples (Spec) ------------------------- *)
\* a is b or a beginning of b
IsPrefix(a, b) ==
  /\ Len(a) <= Len(b)
  /\ \A i \in DOMAIN a : a[i] = b[i]
\* the timestamps never decrease along the sequence
TimestampsAscend(samples) ==
  \A i \in DOMAIN samples : \A j \in DOMAIN samples :
     i < j => samples[i].Timestamp <= samples[j].Timestamp

\* what holds of the samples in every state
SamplesInOrder ==
  /\ TimestampsAscend(smsg.CreditSamples)
  /\ TimestampsAscend(cmsg.CreditSamples)
  /\ \A i \in DOMAIN FromServer :
       /\ TimestampsAscend(FromServer[i].msg.CreditSamples)
       /\ FromServer[i].msg.CanProceed =>
            Len(FromServer[i].msg.CreditSamples) = 1
       /\ ~FromServer[i].msg.CanProceed =>
            Len(FromServer[i].msg.CreditSamples) <= 1
  /\ \A rank \in 0..MaxRank :
       LET r == PullActiveIdentityVoteCreditsSample(
                  smsg.CreditSamples, rank, Len(shist) + 1)
       IN IF r.err
          THEN r.samples = smsg.CreditSamples
          ELSE /\ Len(r.samples) = Len(smsg.CreditSamples) + 1
               /\ IsPrefix(smsg.CreditSamples, r.samples)
               /\ r.samples[Len(r.samples)].VoteRank = rank

\* what holds of the samples in every step
SamplesOnlyAppended ==
  /\ IsPrefix(smsg.CreditSamples, smsg'.CreditSamples)
  /\ IsPrefix(cmsg.CreditSamples, cmsg'.CreditSamples)
  /\ spc = "preflight_sample" /\ spc' # spc =>
       Len(smsg'.CreditSamples) =
         Len(smsg.CreditSamples) + (IF spc' = "tower_open" THEN 1 ELSE 0)
  /\ Len(smsg'.CreditSamples) - Len(smsg.CreditSamples) <= cfg.monitorCount + 1

\* C34: credit_samples[active_pubkey] only grows by appending: a successful
\* pull adds exactly one sample at the end, a failed pull adds none, the
\* timestamps never decrease along the sequence, and the sequence holds
\* exactly one sample when the server encodes can_proceed=true.
C34_SamplesAppendOnly == []SamplesInOrder /\ [][SamplesOnlyAppended]_vars

C34_Witness ==
  /\ Len(smsg.CreditSamples) = 3
  /\ smsg.CreditSamples[1].Timestamp < smsg.CreditSamples[3].Timestamp
  /\ Happened(shist, "s_monitor")
  /\ Len(cmsg.CreditSamples) = 1

(* ------------- time to the next leader slot (LeaderSlotSpec) ---------- *)
\* the places of the schedule whose slot, converted to an absolute slot as
\* (absolute_slot - slot_index) + relative index, is after the current slot
FutureEntries ==
  {i \in DOMAIN leaderSlot.schedule.relativeSlots :
     (leaderSlot.epochInfo.AbsoluteSlot - leaderSlot.epochInfo.SlotIndex)
       + leaderSlot.schedule.relativeSlots[i] > leaderSlot.currentSlot}

C36_TowerBytesNotRetained ==
  /\ \A i \in DOMAIN FromClient :
       i = 1 => FromClient[i].msg.ActiveNodeInfo.TowerFileBytes = <<>>
  /\ \A i \in DOMAIN FromServer :
       /\ i = 1 => FromServer[i].msg.ActiveNodeInfo.TowerFileBytes = <<>>
       /\ FromServer[i].msg.IsSuccessfullyCompleted =>
            FromServer[i].msg.ActiveNodeInfo.TowerFileBytes = <<>>
  /\ \A i \in DOMAIN wire :
       wire[i].msg.PassiveNodeInfo.TowerFileBytes = <<>>
  /\ ~Happened(chist, "c_tower_read") =>
       /\ cmsg.ActiveNodeInfo.TowerFileBytes = <<>>
       /\ smsg.ActiveNodeInfo.TowerFileBytes = <<>>
  /\ Happened(shist, "s_write") /\ spc # "set_identity" =>
       smsg.ActiveNodeInfo.TowerFileBytes = <<>>

\* the part of C36 that the code keeps: no tower bytes before the client has
\* read its tower file, and none in the first two exchanges
C36_NoTowerBytesBeforeTransfer ==
  /\ \A i \in DOMAIN FromClient :
       i = 1 => FromClient[i].msg.ActiveNodeInfo.TowerFileBytes = <<>>
  /\ \A i \in DOMAIN FromServer :
       i = 1 => FromServer[i].msg.ActiveNodeInfo.TowerFileBytes = <<>>
  /\ \A i \in DOMAIN wire :
       wire[i].msg.PassiveNodeInfo.TowerFileBytes = <<>>
  /\ ~Happened(chist, "c_tower_read") =>
       /\ cmsg.ActiveNodeInfo.TowerFileBytes = <<>>
       /\ smsg.ActiveNodeInfo.TowerFileBytes = <<>>

(* -------- the client stops before the tower message (LiveSpec) -------- *)
\* the client was admitted and is gone without having sent the tower message
ClientStoppedAfterAdmission ==
  /\ cexit # "running"
  /\ cread >= 1 /\ cmsg.CanProceed
  /\ Len(FromClient) = 1

\* the server's Decode of the tower message ended with an error and the
\* handler returned
ServerDecodeEndedWithError ==
  /\ Happened(shist, "s_dec_err")
  /\ spc = "returned"

\* nothing of the transfer happens on the server for that stream
ClientStopSafe ==
  ClientStoppedAfterAdmission =>
    /\ spc \in {"await_tower", "returned"}
    /\ spc = "returned" => ServerDecodeEndedWithError
    /\ ~Happened(shist, "s_write") /\ towerB.bytes = <<>>
    /\ ~Happened(shist, "s_run_command")
    /\ identity["B"] = "passive"
    /\ ~CompletionEncoded
    /\ Len(FromServer) = 1
    /\ \/ Happened(chist, "c_gate_err")
       \/ Happened(chist, "c_pre_hooks_err")
       \/ Happened(chist, "c_slot_err")
       \/ Happened(chist, "c_slot_end_err")
       \/ Happened(chist, "c_exec_failed")
       \/ Happened(chist, "c_tower_read_err")

\* C37: if the client stops after admission without sending the tower
\* message (leader-gate error, failed must_succeed pre-hook, slot RPC error,
\* failed set-identity command or failed tower read), the server's pending
\* decode ends with an error, and for that stream the server writes no tower
\* bytes, runs no set-identity command and sends no completion message.
C37_ClientStopAbortsServer ==
  /\ []ClientStopSafe
  /\ ClientStoppedAfterAdmission ~> ServerDecodeEndedWithError

C37_Witness ==
  /\ ClientStoppedAfterAdmission
  /\ Happened(chist, "c_exec_failed")
  /\ ServerDecodeEndedWithError
  /\ towerB.exists /\ towerB.bytes = <<>>

(* -------------- the pre-opened tower file (Spec) ---------------------- *)
\* the server has opened its tower file and has not written to it
TowerOpenedNotWritten ==
  Happened(shist, "s_tower_open") /\ ~Happened(shist, "s_write")

\* C38: from the pre-open of the tower file until the verified write the
\* passive tower file exists and is empty, and every abort in that window
\* (failed pre-hook, client disconnect, hash mismatch) leaves that empty
\* file in place: the file's absence is not restored.
C38_EmptyTowerFileLeftBehind ==
  /\ ~Happened(shist, "s_tower_open") => ~towerB.exists
  /\ TowerOpenedNotWritten => towerB.exists /\ towerB.bytes = <<>>
  /\ \A e \in {"s_hook_failed", "s_dec_err", "s_hash_mismatch"} :
       Precedes(shist, "s_tower_open", e) =>
         /\ TowerOpenedNotWritten
         /\ spc = "returned" \/ sexit # "running"
         /\ towerB = [exists |-> TRUE, bytes |-> <<>>]

C38_Witness ==
  /\ Happened(shist, "s_hash_mismatch")
  /\ sexit = "exit1"
  /\ towerB = [exists |-> TRUE, bytes |-> <<>>]
  /\ Len(FromClient) = 2

(* --------- the gossip confirmation loop (GossipLoopSpec) -------------- *)
\* attempt i got both gossip answers and saw both pubkeys swapped
SawSwapped(i) ==
  /\ ~gossipLoop.attempts[i].err
  /\ gossipLoop.attempts[i].active /\ gossipLoop.attempts[i].passive

\* C39: confirmGossipNodesPostFailover does not stop at the first attempt
\* that observes both pubkeys swapped: it queries gossip again, without the
\* 2 s delay, until 4 attempts have been made, and the closing log line
\* goes by the flags as the last attempt left them, whatever an earlier
\* attempt observed.
C39_GossipLoopRunsAllAttempts ==
  gossipLoop.pc # "idle" =>
    /\ Len(gossipLoop.attempts) = gossipLoop.locals.retryCount
    /\ gossipLoop.locals.retryCount <= GossipMaxRetries
    /\ gossipLoop.pc = "returned" <=>
         gossipLoop.locals.retryCount = GossipMaxRetries
    /\ \A i \in DOMAIN gossipLoop.attempts :
         /\ SawSwapped(i) => ~gossipLoop.attempts[i].slept
         /\ (~SawSwapped(i) /\ i < GossipMaxRetries) =>
              gossipLoop.attempts[i].slept
         /\ i = GossipMaxRetries => ~gossipLoop.attempts[i].slept
    /\ gossipLoop.pc = "returned" =>
         LET last == gossipLoop.attempts[GossipMaxRetries]
         IN gossipLoop.log =
              IF last.active /\ last.passive
              THEN "Gossip confirms nodes switched roles successfully"
              ELSE "Gossip does not confirm role switch"

\* the first attempt saw both pubkeys swapped and did not sleep, three more
\* attempts were made, and the last one overwrote the observation
C39_Witness ==
  /\ gossipLoop.pc = "returned"
  /\ SawSwapped(1) /\ ~gossipLoop.attempts[1].slept
  /\ ~gossipLoop.attempts[GossipMaxRetries].err
  /\ ~gossipLoop.locals.active
  /\ gossipLoop.log = "Gossip does not confirm role switch"

(* --------------- the run after a dry run (RerunSpec) ------------------ *)
DryRunSucceeded == ServerIsDryRun(cfg) /\ sexit = "exit0"

NextRunDone == coord.pc # "new"

====
